---- MODULE Spec2Model ----
(***************************************************************************)
(* Netzob typed-value layer: the BitArray, HexaString, Raw and IPv4 types  *)
(* (canParse / generate / encode / decode / boundary catalog / concretize).*)
(*                                                                         *)
(* Python values are tagged records [t, v]: t is the Python type and v a   *)
(* sequence of integers (bits of a bitarray, the bytes of a bytes object,  *)
(* the code points of a str, the four octets of an IPAddress or of a       *)
(* dotted-quad text, 0 or 1 for a bool).                                   *)
(***************************************************************************)
EXTENDS Integers, Sequences, FiniteSets, TLC

VARIABLES obj, op, arg, ca, ret, err, bounds,
          symbol, objs, files, gen, log, result

vars == <<obj, op, arg, ca, ret, err, bounds, symbol, objs, files, gen, log, result>>

\* the symbol, its objects, the files, the generator of specialize_from_ca,
\* what its last resumption did and what the last call returned
symbolVars == <<symbol, objs, files, gen, log, result>>

\* ---------------------------------------------------------------- bounds
MaxBits == 4          \* longest size bound of a BitArray / HexaString
MaxData == 5          \* longest bitarray handed to canParse
MaxBytes == 3         \* largest nbBytes of a Raw
MaxRandBits == 4      \* up to this size every random bit content is drawn
MaxGenerated == 8     \* the cap generate() puts on an unbounded size

\* `None` as a size bound: nbBits=(None, None)
NoBound == -1

\* ---------------------------------------------------------------- values
None == [t |-> "None", v |-> <<>>]
Bits(b) == [t |-> "bitarray", v |-> b]
Bytes(b) == [t |-> "bytes", v |-> b]
Str(s) == [t |-> "str", v |-> s]
Bool(b) == [t |-> "bool", v |-> <<IF b THEN 1 ELSE 0>>]
IPAddress(q) == [t |-> "IPAddress", v |-> q]
DottedQuad(q) == [t |-> "dotted", v |-> q]
Self == [t |-> "self", v |-> <<>>]
NoReturn == [t |-> "noreturn", v |-> <<>>]

Outcome(o, r, e) == [obj |-> o, ret |-> r, err |-> e]

BitSeqs(n) == [1..n -> {0, 1}]

RECURSIVE Concat(_)
Concat(ss) == IF ss = <<>> THEN <<>> ELSE Head(ss) \o Concat(Tail(ss))

Elems(s) == {s[i] : i \in DOMAIN s}

\* bitarray.setall(b) on a bitarray of n bits
SetAll(n, b) == [i \in 1..n |-> b]

\* value[lo:hi] = 1 with Python slice bounds (0-based, hi exclusive)
SetSlice(s, lo, hi) == [i \in DOMAIN s |-> IF lo < i /\ i <= hi THEN 1 ELSE s[i]]

\* ------------------------------------------------------- AbstractType
\* The object: the attributes the four types read and write.
\*   min, max    self.size, NoBound for None
\*   value       None or a bitarray
\*   alphabet    None or a list of one-character strings (Raw)
\*   network     <<>> for None, else <<a, b, c, d, prefixlen>> (IPv4)
\*   unitSize    the unit size in bits
NewObject(kind, value, min, max, alphabet, network, unitSize) ==
    [kind |-> kind, min |-> min, max |-> max, value |-> value,
     concretized |-> FALSE, alphabet |-> alphabet, network |-> network,
     unitSize |-> unitSize]

\* str -> int of the size cells of a covering array
SizeCells == {"0", "1", "2", "3", "4", "5", "8", "16", "24", "32"}
StrToInt(s) ==
    CASE s = "0" -> 0 [] s = "1" -> 1 [] s = "2" -> 2 [] s = "3" -> 3
      [] s = "4" -> 4 [] s = "5" -> 5 [] s = "8" -> 8 [] s = "16" -> 16
      [] s = "24" -> 24 [] s = "32" -> 32

\* AbstractType.concretize(ca_values, align): the resolved target size. A
\* closed range resolves to its bound, an open one to the size the row
\* supplies, else to its upper bound.
AbstractType_concretize(o, cav, align) ==
    IF o.min = o.max THEN o.max
    ELSE IF "Size" \in DOMAIN cav THEN StrToInt(cav["Size"])
    ELSE o.max

\* AbstractType.unit_size_to_int
unit_size_to_int(u) == u

\* The enumeration members, in declaration order, as (name, is_valid)
GenericTags ==
    << <<"VALUE_NONE", TRUE>>, <<"VALUE_ALL", TRUE>>, <<"VALUE_RAND", TRUE>>,
       <<"VALUE_MSB", TRUE>>, <<"VALUE_LSB", TRUE>>, <<"VALUE_TOPHALF", TRUE>>,
       <<"VALUE_BOTTOMHALF", TRUE>> >>

BitArray_BoundaryValue == GenericTags

Names(members) == {members[i][1] : i \in DOMAIN members}

\* [f(x) for x in members if x not in omit]
SelectSeq2(members, omit) ==
    SelectSeq(members, LAMBDA m : m[1] \notin omit)

\* A catalog entry as the code stores it: the (name, is_valid) tuple of the
\* member, or the bare member name.
TupleEntry(m) == [tuple |-> TRUE, name |-> m[1], valid |-> m[2]]
NameEntry(m) == [tuple |-> FALSE, name |-> m[1], valid |-> FALSE]

TupleEntries(s) == [i \in DOMAIN s |-> TupleEntry(s[i])]
NameEntries(s) == [i \in DOMAIN s |-> NameEntry(s[i])]

\* ------------------------------------------------------------ BitArray
\* VALUE_TOPHALF rounding the half up
GenericValue_roundUp(tag, size) ==
    CASE tag = "VALUE_NONE" -> {Outcome(None, Bits(SetAll(size, 0)), "None")}
      [] tag = "VALUE_ALL" -> {Outcome(None, Bits(SetAll(size, 1)), "None")}
      [] tag = "VALUE_MSB" ->
           IF size = 0 THEN {Outcome(None, None, "IndexError")}
           ELSE {Outcome(None, Bits(SetSlice(SetAll(size, 0), 0, 1)), "None")}
      [] tag = "VALUE_LSB" ->
           IF size = 0 THEN {Outcome(None, None, "IndexError")}
           ELSE {Outcome(None, Bits(SetSlice(SetAll(size, 0), size - 1, size)), "None")}
      [] tag = "VALUE_TOPHALF" ->
           {Outcome(None, Bits(SetSlice(SetAll(size, 0), 0, (size + 1) \div 2)), "None")}
      [] tag = "VALUE_BOTTOMHALF" ->
           {Outcome(None, Bits(SetSlice(SetAll(size, 0), size \div 2, size)), "None")}

\* The six deterministic generic tags on a bitarray of `size` bits; an
\* index past the end raises IndexError.
GenericValue(tag, size) ==
    CASE tag = "VALUE_NONE" -> {Outcome(None, Bits(SetAll(size, 0)), "None")}
      [] tag = "VALUE_ALL" -> {Outcome(None, Bits(SetAll(size, 1)), "None")}
      [] tag = "VALUE_MSB" ->
           IF size = 0 THEN {Outcome(None, None, "IndexError")}
           ELSE {Outcome(None, Bits(SetSlice(SetAll(size, 0), 0, 1)), "None")}
      [] tag = "VALUE_LSB" ->
           IF size = 0 THEN {Outcome(None, None, "IndexError")}
           ELSE {Outcome(None, Bits(SetSlice(SetAll(size, 0), size - 1, size)), "None")}
      [] tag = "VALUE_TOPHALF" ->
           {Outcome(None, Bits(SetSlice(SetAll(size, 0), 0, size \div 2)), "None")}
      [] tag = "VALUE_BOTTOMHALF" ->
           {Outcome(None, Bits(SetSlice(SetAll(size, 0), size \div 2, size)), "None")}

\* The exclusion list of VALUE_RAND
Excluded(size) ==
    { SetAll(size, 0), SetAll(size, 1),
      SetSlice(SetAll(size, 0), 0, 1),
      SetSlice(SetAll(size, 0), size - 1, size),
      SetSlice(SetAll(size, 0), 0, size \div 2),
      SetSlice(SetAll(size, 0), size \div 2, size) }

\* One byte as eight bits, most significant bit first
ByteBits(b) == [i \in 1..8 |-> (b \div (2 ^ (8 - i))) % 2]
BytesToBits(bs) == Concat([i \in DOMAIN bs |-> ByteBits(bs[i])])
BitsToByte(s, k) ==
    LET bit(i) == IF 8 * k + i <= Len(s) THEN s[8 * k + i] ELSE 0
    IN  bit(1) * 128 + bit(2) * 64 + bit(3) * 32 + bit(4) * 16
        + bit(5) * 8 + bit(6) * 4 + bit(7) * 2 + bit(8)
\* bitarray.tobytes(): the last byte is padded with zero bits
BitsToBytes(s) == [k \in 1..((Len(s) + 7) \div 8) |-> BitsToByte(s, k - 1)]

\* os.urandom(n), the bytes kept to a few values
SampleBytes == {0, 65, 255}
ByteSeqs(n) == [1..n -> SampleBytes]

\* [random.randint(0, 1) for i in range(0, size)]: every content up to
\* MaxRandBits bits; above, the excluded contents and two alternating ones
RandomBits(size) ==
    IF size <= MaxRandBits THEN BitSeqs(size)
    ELSE Excluded(size) \cup {[i \in 1..size |-> i % 2], [i \in 1..size |-> (i + 1) % 2]}

\* VALUE_RAND keeping the first content drawn
RandValue_firstDraw(size) ==
    IF size = 0 THEN {Outcome(None, None, "IndexError")}
    ELSE {Outcome(None, Bits(b), "None") : b \in RandomBits(size)}

\* VALUE_RAND: resample until the value is outside the exclusion list; the
\* loop never ends when every content of that size is excluded.
RandValue(size) ==
    IF size = 0 THEN {Outcome(None, None, "IndexError")}
    ELSE IF RandomBits(size) \subseteq Excluded(size)
         THEN {Outcome(None, NoReturn, "None")}
         ELSE {Outcome(None, Bits(b), "None") : b \in RandomBits(size) \ Excluded(size)}

TagValue(tag, size) ==
    IF tag = "VALUE_RAND" THEN RandValue(size) ELSE GenericValue(tag, size)

\* self.value = value; self.concretized = True; return self
Pinned(o, picks, flag) ==
    { IF p.err = "None" /\ p.ret # NoReturn
        THEN Outcome([o EXCEPT !.value = p.ret,
                               !.concretized = IF flag THEN TRUE ELSE @],
                     Self, "None")
        ELSE Outcome(o, p.ret, p.err) : p \in picks }

BitArray_concretize(o, cav) ==
    LET size == AbstractType_concretize(o, cav, FALSE)
    IN  IF "BoundaryValue" \in DOMAIN cav
        THEN IF cav["BoundaryValue"] \notin Names(BitArray_BoundaryValue)
             THEN {Outcome(o, None, "KeyError")}
             ELSE Pinned(o, TagValue(cav["BoundaryValue"], size), TRUE)
        ELSE {Outcome(o, None, "ValueError")}

\* the lower bound compared with >=
BitArray_canParse_strictMin(o, data) ==
    IF data = None THEN Outcome(o, None, "TypeError")
    ELSE IF data.t # "bitarray" THEN Outcome(o, None, "TypeError")
    ELSE IF Len(data.v) = 0 THEN Outcome(o, Bool(FALSE), "None")
    ELSE IF o.min # NoBound /\ o.min >= Len(data.v) THEN Outcome(o, Bool(FALSE), "None")
    ELSE IF o.max # NoBound /\ o.max < Len(data.v) THEN Outcome(o, Bool(FALSE), "None")
    ELSE Outcome(o, Bool(TRUE), "None")

BitArray_canParse(o, data) ==
    IF data = None THEN Outcome(o, None, "TypeError")
    ELSE IF data.t # "bitarray" THEN Outcome(o, None, "TypeError")
    ELSE IF Len(data.v) = 0 THEN Outcome(o, Bool(FALSE), "None")
    ELSE IF o.min # NoBound /\ o.min > Len(data.v) THEN Outcome(o, Bool(FALSE), "None")
    ELSE IF o.max # NoBound /\ o.max < Len(data.v) THEN Outcome(o, Bool(FALSE), "None")
    ELSE Outcome(o, Bool(TRUE), "None")

\* the thresholds compared with <=
GenericOmit_inclusive(max_size) ==
    (IF max_size <= 4 THEN {"VALUE_TOPHALF"} ELSE {})
    \cup (IF max_size <= 3 THEN {"VALUE_BOTTOMHALF", "VALUE_RAND"} ELSE {})
    \cup (IF max_size <= 2 THEN {"VALUE_MSB", "VALUE_LSB"} ELSE {})

\* VALUE_MSB and VALUE_LSB kept on a single bit
GenericOmit_singleBit(max_size) ==
    (IF max_size < 4 THEN {"VALUE_TOPHALF"} ELSE {})
    \cup (IF max_size < 3 THEN {"VALUE_BOTTOMHALF", "VALUE_RAND"} ELSE {})
    \cup (IF max_size < 1 THEN {"VALUE_MSB", "VALUE_LSB"} ELSE {})

\* the omit list of the generic tags
GenericOmit(max_size) ==
    (IF max_size < 4 THEN {"VALUE_TOPHALF"} ELSE {})
    \cup (IF max_size < 3 THEN {"VALUE_BOTTOMHALF", "VALUE_RAND"} ELSE {})
    \cup (IF max_size < 2 THEN {"VALUE_MSB", "VALUE_LSB"} ELSE {})

\* `None < 4` raises TypeError
BitArray_construct_boundary_values(o) ==
    IF o.max = NoBound THEN [err |-> "TypeError", list |-> <<>>]
    ELSE [err |-> "None",
          list |-> TupleEntries(SelectSeq2(BitArray_BoundaryValue, GenericOmit(o.max)))]

\* AbstractType.MAXIMUM_GENERATED_DATA_SIZE
MAXIMUM_GENERATED_DATA_SIZE == MaxGenerated

\* random.randint(None, n) raises TypeError
BitArray_generate(o) ==
    IF o.value # None THEN {Outcome(o, o.value, "None")}
    ELSE LET maxSize == IF o.max = NoBound THEN MAXIMUM_GENERATED_DATA_SIZE ELSE o.max
         IN  IF o.min = NoBound THEN {Outcome(o, None, "TypeError")}
             ELSE {Outcome(o, Bits(b), "None") :
                     b \in UNION {RandomBits(n) : n \in o.min..maxSize}}

\* str.encode("utf-8") / bytes.decode("utf-8") for code points below 2048
RECURSIVE Utf8Encode(_)
Utf8Encode(cs) ==
    IF cs = <<>> THEN <<>>
    ELSE (IF Head(cs) < 128 THEN <<Head(cs)>>
          ELSE <<192 + (Head(cs) \div 64), 128 + (Head(cs) % 64)>>)
         \o Utf8Encode(Tail(cs))

\* <<-1>> stands for UnicodeDecodeError
RECURSIVE Utf8Decode(_)
Utf8Decode(bs) ==
    IF bs = <<>> THEN <<>>
    ELSE IF Head(bs) < 128
         THEN LET rest == Utf8Decode(Tail(bs))
              IN  IF rest = <<-1>> THEN rest ELSE <<Head(bs)>> \o rest
    ELSE IF Head(bs) >= 194 /\ Head(bs) <= 223 /\ Len(bs) >= 2
            /\ bs[2] >= 128 /\ bs[2] <= 191
         THEN LET rest == Utf8Decode(Tail(Tail(bs)))
              IN  IF rest = <<-1>> THEN rest
                  ELSE <<(Head(bs) - 192) * 64 + (bs[2] - 128)>> \o rest
    ELSE <<-1>>

BitArray_decode(data) ==
    IF data = None THEN Outcome(None, None, "TypeError")
    ELSE IF data.t # "bitarray" THEN Outcome(None, None, "AttributeError")
    ELSE Outcome(None, Bytes(BitsToBytes(data.v)), "None")

\* norm_data is bound only for bytes and str
BitArray_encode(data) ==
    IF data = None THEN Outcome(None, None, "TypeError")
    ELSE IF data.t = "bytes" THEN Outcome(None, Bits(BytesToBits(data.v)), "None")
    ELSE IF data.t = "str" THEN Outcome(None, Bits(BytesToBits(Utf8Encode(data.v))), "None")
    ELSE Outcome(None, None, "UnboundLocalError")

\* ---------------------------------------------------------- HexaString
HexaString_BoundaryValue == GenericTags

\* "0".."9", "a".."f"
allowedValues == (48..57) \cup (97..102)

HexChar(n) == IF n < 10 THEN 48 + n ELSE 97 + (n - 10)
\* binascii.unhexlify also takes the upper-case digits
HexVal(c) == IF c >= 48 /\ c <= 57 THEN c - 48
             ELSE IF c >= 97 /\ c <= 102 THEN c - 87
             ELSE IF c >= 65 /\ c <= 70 THEN c - 55
             ELSE -1

hexlify(bs) == Concat([i \in DOMAIN bs |-> <<HexChar(bs[i] \div 16), HexChar(bs[i] % 16)>>])
unhexlify(cs) == [k \in 1..(Len(cs) \div 2) |-> HexVal(cs[2 * k - 1]) * 16 + HexVal(cs[2 * k])]

\* len(data) of an int raises TypeError; data.decode of a str raises
\* AttributeError, of a bitarray TypeError, of bytes that are not UTF-8
\* UnicodeDecodeError.
HexaString_canParse(o, data) ==
    IF data = None THEN Outcome(o, None, "TypeError")
    ELSE IF data.t \notin {"bytes", "str", "bitarray"} THEN Outcome(o, None, "TypeError")
    ELSE IF Len(data.v) = 0 THEN Outcome(o, Bool(FALSE), "None")
    ELSE IF data.t = "str" THEN Outcome(o, None, "AttributeError")
    ELSE IF data.t = "bitarray" THEN Outcome(o, None, "TypeError")
    ELSE LET str_data == Utf8Decode(data.v)
         IN  IF str_data = <<-1>> THEN Outcome(o, None, "UnicodeDecodeError")
             ELSE IF \E i \in DOMAIN str_data : str_data[i] \notin allowedValues
                  THEN Outcome(o, Bool(FALSE), "None")
                  ELSE Outcome(o, Bool(TRUE), "None")

\* '0' + data raises TypeError on bytes; unhexlify raises binascii.Error
\* on a non-hexadecimal digit and on an odd length
HexaString_decode(data) ==
    IF data = None THEN Outcome(None, None, "TypeError")
    ELSE IF data.t \notin {"bytes", "str"} THEN Outcome(None, None, "TypeError")
    ELSE IF Len(data.v) % 2 = 1 /\ data.t = "bytes" THEN Outcome(None, None, "TypeError")
    ELSE LET padded == IF Len(data.v) % 2 = 1 THEN <<48>> \o data.v ELSE data.v
         IN  IF \E i \in DOMAIN padded : HexVal(padded[i]) = -1
             THEN Outcome(None, None, "binascii.Error")
             ELSE Outcome(None, Bytes(unhexlify(padded)), "None")

\* hexlify takes any bytes-like object
HexaString_encode(data) ==
    IF data = None THEN Outcome(None, None, "TypeError")
    ELSE IF data.t = "bytes" THEN Outcome(None, Bytes(hexlify(data.v)), "None")
    ELSE IF data.t = "bitarray" THEN Outcome(None, Bytes(hexlify(BitsToBytes(data.v))), "None")
    ELSE Outcome(None, None, "TypeError")

\* HexaString defines no generate: AbstractType.generate
AbstractType_generate(o) ==
    IF o.value # None THEN {Outcome(o, o.value, "None")}
    ELSE LET minSize == IF o.min = NoBound THEN 0 ELSE o.min
             maxSize == IF o.max = NoBound THEN MAXIMUM_GENERATED_DATA_SIZE ELSE o.max
         IN  {Outcome(o, Bits(b), "None") :
                b \in UNION {RandomBits(n) : n \in minSize..maxSize}}

\* the member looked up without the `in` test: a missing key is a KeyError
HexaString_concretize_noTest(o, cav) ==
    LET size == AbstractType_concretize(o, cav, FALSE)
    IN  IF "BoundaryValue" \in DOMAIN cav
        THEN IF cav["BoundaryValue"] \notin Names(GenericTags)
             THEN {Outcome(o, None, "KeyError")}
             ELSE Pinned(o, TagValue(cav["BoundaryValue"], size), TRUE)
        ELSE {Outcome(o, None, "KeyError")}

HexaString_concretize(o, cav) ==
    LET size == AbstractType_concretize(o, cav, FALSE)
    IN  IF "BoundaryValue" \in DOMAIN cav
        THEN IF cav["BoundaryValue"] \notin Names(HexaString_BoundaryValue)
             THEN {Outcome(o, None, "KeyError")}
             ELSE Pinned(o, TagValue(cav["BoundaryValue"], size), TRUE)
        ELSE {Outcome(o, None, "ValueError")}

HexaString_construct_boundary_values(o) ==
    IF o.max = NoBound THEN [err |-> "TypeError", list |-> <<>>]
    ELSE [err |-> "None",
          list |-> TupleEntries(SelectSeq2(HexaString_BoundaryValue, GenericOmit(o.max)))]

\* ----------------------------------------------------------------- Raw
Raw_BoundaryValue ==
    GenericTags \o
    << <<"VALUE_LEGAL", TRUE>>, <<"VALUE_ILLEGAL_START", FALSE>>,
       <<"VALUE_ILLEGAL_END", FALSE>>, <<"VALUE_ILLEGAL_RAND", FALSE>> >>

\* nbBytes: <<>> for None, <<n>> for an int, <<lo, hi>> for a tuple
Raw_convertNbBytesinNbBits(nbBytes) ==
    IF nbBytes = <<>> THEN <<NoBound, NoBound>>
    ELSE IF Len(nbBytes) = 1 THEN <<nbBytes[1] * 8, nbBytes[1] * 8>>
    ELSE << IF nbBytes[1] # NoBound THEN nbBytes[1] * 8 ELSE NoBound,
            IF nbBytes[2] # NoBound THEN nbBytes[2] * 8 ELSE NoBound >>

\* TypeConverter.convert(x, Raw, BitArray)
RawToBitArray(x) == BitArray_encode(x).ret

\* "".join([random.choice(alphabet) for _ in range(n)])
Choices(alphabet, n) == [1..(IF n < 0 THEN 0 ELSE n) -> Elems(alphabet.v)]

\* generate never reads self.value
Raw_generate(o) ==
    LET maxSize == IF o.max = NoBound THEN MAXIMUM_GENERATED_DATA_SIZE ELSE o.max
        minSize == IF o.min = NoBound THEN 0 ELSE o.min
    IN  IF o.alphabet = None
        THEN {Outcome(o, RawToBitArray(Bytes(bs)), "None") :
                bs \in UNION {ByteSeqs(n \div 8) : n \in minSize..maxSize}}
        ELSE {Outcome(o, RawToBitArray(Str(cs)), "None") :
                cs \in UNION {Choices(o.alphabet, n \div 8) : n \in minSize..maxSize}}

Raw_decode(data) == Outcome(None, data, "None")
Raw_encode(data) == Outcome(None, data, "None")

\* The elements of a bitarray and of bytes are ints, those of a str are
\* one-character strings; only the latter can be `in` the alphabet.
Raw_canParse(o, data) ==
    IF data = None THEN Outcome(o, None, "TypeError")
    ELSE IF data.t \notin {"bytes", "str", "bitarray"} THEN Outcome(o, None, "TypeError")
    ELSE IF Len(data.v) = 0 THEN Outcome(o, Bool(FALSE), "None")
    ELSE IF Len(data.v) % 8 # 0 THEN Outcome(o, Bool(FALSE), "None")
    ELSE IF o.alphabet # None
            /\ \E i \in DOMAIN data.v :
                 ~(data.t = "str" /\ data.v[i] \in Elems(o.alphabet.v))
         THEN Outcome(o, Bool(FALSE), "None")
    ELSE Outcome(o, Bool(TRUE), "None")

\* the thresholds counted in bytes whatever the unit size
Raw_omit_bytes(o) ==
    IF o.alphabet # None
    THEN Names(GenericTags)
         \cup (IF o.max < 2 * 8 THEN {"VALUE_ILLEGAL_END"} ELSE {})
         \cup (IF o.max < 3 * 8 THEN {"VALUE_ILLEGAL_RAND"} ELSE {})
    ELSE {"VALUE_LEGAL", "VALUE_ILLEGAL_START", "VALUE_ILLEGAL_END", "VALUE_ILLEGAL_RAND"}
         \cup GenericOmit(o.max)

Raw_omit(o) ==
    IF o.alphabet # None
    THEN Names(GenericTags)
         \cup (IF o.max < 2 * unit_size_to_int(o.unitSize) THEN {"VALUE_ILLEGAL_END"} ELSE {})
         \cup (IF o.max < 3 * unit_size_to_int(o.unitSize) THEN {"VALUE_ILLEGAL_RAND"} ELSE {})
    ELSE {"VALUE_LEGAL", "VALUE_ILLEGAL_START", "VALUE_ILLEGAL_END", "VALUE_ILLEGAL_RAND"}
         \cup GenericOmit(o.max)

Raw_construct_boundary_values(o) ==
    IF o.max = NoBound THEN [err |-> "TypeError", list |-> <<>>]
    ELSE [err |-> "None",
          list |-> NameEntries(SelectSeq2(Raw_BoundaryValue, Raw_omit(o)))]

\* chr(random.randint(0, 127)), the draws kept to a few characters
SampleChars == {0, 65, 111, 116}

\* The alphabet tags with the bad byte of VALUE_ILLEGAL_RAND at any place
Raw_alphabetValue_anyPlace(o, tag, size) ==
    LET len_bytes == size \div 8
        bad == SampleChars \ Elems(o.alphabet.v)
        text(cs) == Outcome(None, RawToBitArray(Str(cs)), "None")
    IN  IF o.alphabet = None THEN {Outcome(None, None, "AssertionError")}
        ELSE IF tag = "VALUE_LEGAL"
             THEN {text(cs) : cs \in Choices(o.alphabet, len_bytes)}
        ELSE IF Len(o.alphabet.v) >= 128 THEN {Outcome(None, None, "AssertionError")}
        ELSE IF tag = "VALUE_ILLEGAL_START"
             THEN {text(<<b>> \o cs) : b \in bad, cs \in Choices(o.alphabet, len_bytes - 1)}
        ELSE IF tag = "VALUE_ILLEGAL_END"
             THEN {text(cs \o <<b>>) : b \in bad, cs \in Choices(o.alphabet, len_bytes - 1)}
        ELSE IF len_bytes - 2 < 1 THEN {Outcome(None, None, "ValueError")}
        ELSE UNION {{text(pre \o <<b>> \o post) :
                        b \in bad, pre \in Choices(o.alphabet, prefix_len),
                        post \in Choices(o.alphabet, len_bytes - prefix_len - 1)} :
                    prefix_len \in 0..(len_bytes - 1)}

\* The alphabet tags: the generated text, or the error raised
Raw_alphabetValue(o, tag, size) ==
    LET len_bytes == size \div 8
        bad == SampleChars \ Elems(o.alphabet.v)
        text(cs) == Outcome(None, RawToBitArray(Str(cs)), "None")
    IN  IF o.alphabet = None THEN {Outcome(None, None, "AssertionError")}
        ELSE IF tag = "VALUE_LEGAL"
             THEN {text(cs) : cs \in Choices(o.alphabet, len_bytes)}
        ELSE IF Len(o.alphabet.v) >= 128 THEN {Outcome(None, None, "AssertionError")}
        ELSE IF tag = "VALUE_ILLEGAL_START"
             THEN {text(<<b>> \o cs) : b \in bad, cs \in Choices(o.alphabet, len_bytes - 1)}
        ELSE IF tag = "VALUE_ILLEGAL_END"
             THEN {text(cs \o <<b>>) : b \in bad, cs \in Choices(o.alphabet, len_bytes - 1)}
        ELSE IF len_bytes - 2 < 1 THEN {Outcome(None, None, "ValueError")}
        ELSE UNION {{text(pre \o <<b>> \o post) :
                        b \in bad, pre \in Choices(o.alphabet, prefix_len),
                        post \in Choices(o.alphabet, len_bytes - prefix_len - 1)} :
                    prefix_len \in 1..(len_bytes - 2)}

\* self.value = value; return self  (self.concretized is not assigned)
Raw_concretize(o, cav) ==
    LET size == AbstractType_concretize(o, cav, o.alphabet # None)
        tag == cav["BoundaryValue"]
    IN  IF "BoundaryValue" \in DOMAIN cav
        THEN IF tag \notin Names(Raw_BoundaryValue)
             THEN {Outcome(o, None, "KeyError")}
             ELSE IF tag \in Names(GenericTags)
                  THEN Pinned(o, TagValue(tag, size), FALSE)
                  ELSE Pinned(o, Raw_alphabetValue(o, tag, size), FALSE)
        ELSE {Outcome(o, None, "ValueError")}

\* ---------------------------------------------------------------- IPv4
IPv4_BoundaryValue ==
    << <<"VALUE_HOST", TRUE>>, <<"VALUE_BROADCAST", FALSE>>, <<"VALUE_NET", FALSE>>,
       <<"VALUE_ILLEGAL", FALSE>>, <<"VALUE_LOCALHOST", TRUE>>, <<"VALUE_PRIVATE", TRUE>>,
       <<"VALUE_LINK", FALSE>>, <<"VALUE_TESTNET", TRUE>>, <<"VALUE_6TO4", FALSE>>,
       <<"VALUE_MULTICAST", FALSE>>, <<"VALUE_RESERVED", FALSE>>, <<"VALUE_PUBLIC", TRUE>> >>

\* netaddr: a dotted quad is an address when its four parts are octets
ValidQuad(q) == Len(q) = 4 /\ \A i \in 1..4 : q[i] >= 0 /\ q[i] <= 255

\* IPAddress.is_netmask(): (value XOR 0xffffffff) + 1 is a power of two,
\* i.e. the bits are ones followed by zeros (0.0.0.0 included)
MaskOctets == {0, 128, 192, 224, 240, 248, 252, 254, 255}
is_netmask(q) ==
    \E k \in 1..4 :
        /\ \A i \in 1..(k - 1) : q[i] = 255
        /\ q[k] \in MaskOctets
        /\ \A i \in (k + 1)..4 : q[i] = 0

\* IPNetwork, kept to the /24 and /16 networks: <<a, b, c, d, prefixlen>>
NetBase(n) == IF n[5] = 24 THEN <<n[1], n[2], n[3], 0>> ELSE <<n[1], n[2], 0, 0>>
InNetwork(q, n) ==
    IF n[5] = 24 THEN q[1] = n[1] /\ q[2] = n[2] /\ q[3] = n[3]
    ELSE q[1] = n[1] /\ q[2] = n[2]
NetBroadcast(n) ==
    IF n[5] = 24 THEN <<n[1], n[2], n[3], 255>> ELSE <<n[1], n[2], 255, 255>>
\* IPNetwork.next(): the adjacent network of the same size
NetNext(n) ==
    IF n[5] = 24 THEN <<n[1], n[2], n[3] + 1, 0, 24>> ELSE <<n[1], n[2] + 1, 0, 0, 16>>
\* the addresses drawn from a network, kept to a few host parts
SampleHostParts == {0, 1, 10, 254, 255}
NetAddresses(n) ==
    IF n[5] = 24 THEN {<<n[1], n[2], n[3], d>> : d \in SampleHostParts}
    ELSE {<<n[1], n[2], c, d>> : c \in {0, 255}, d \in SampleHostParts}
\* iter_hosts(): without the network and the broadcast address
NetHosts(n) == NetAddresses(n) \ {NetBase(n), NetBroadcast(n)}

\* IPAddress(data) of a str; <<-1>> stands for AddrFormatError
ParseAddress(data) ==
    IF data.t = "dotted" /\ ValidQuad(data.v) THEN data.v ELSE <<-1>>

\* IPv4.encode: a str is parsed as an address; everything else, and a str
\* that is no address or is netmask-shaped, goes to struct.unpack, which
\* raises unless data is four bytes. A netmask-shaped result returns None.
IPv4_encode(data) ==
    IF data.t = "dotted" /\ ParseAddress(data) # <<-1>> /\ ~is_netmask(ParseAddress(data))
    THEN Outcome(None, IPAddress(data.v), "None")
    ELSE IF data.t = "bytes" /\ Len(data.v) = 4
         THEN IF is_netmask(data.v) THEN Outcome(None, None, "None")
              ELSE Outcome(None, IPAddress(data.v), "None")
    ELSE Outcome(None, None, "TypeError")

\* TypeConverter.convert(ip.packed, Raw, BitArray)
PackedBits(q) == Bits(BytesToBits(q))

\* IPAddress(data).packed inside decode and the converter: only a str or
\* an IPAddress is accepted by netaddr
AddressOf(data) ==
    IF data.t = "IPAddress" THEN data.v ELSE ParseAddress(data)

IPv4_canParse(o, data) ==
    IF data = None THEN Outcome(o, None, "TypeError")
    ELSE LET enc == IPv4_encode(data)
         IN  IF enc.err # "None" \/ enc.ret = None THEN Outcome(o, Bool(FALSE), "None")
             ELSE IF o.value # None
                  THEN IF AddressOf(data) = <<-1>> THEN Outcome(o, Bool(FALSE), "None")
                       ELSE Outcome(o, Bool(o.value = PackedBits(AddressOf(data))), "None")
             ELSE IF o.network # <<>>
                  THEN Outcome(o, Bool(InNetwork(enc.ret.v, o.network)), "None")
             ELSE Outcome(o, Bool(TRUE), "None")

\* ip = IPv4(); ip.canParse(data)
DefaultIPv4 == NewObject("IPv4", None, 32, 32, None, <<>>, 8)

IPv4_decode(data) ==
    IF data = None THEN Outcome(None, None, "TypeError")
    ELSE IF IPv4_canParse(DefaultIPv4, data).ret # Bool(TRUE)
         THEN Outcome(None, None, "TypeError")
    ELSE IF AddressOf(data) = <<-1>> THEN Outcome(None, None, "AddrFormatError")
    ELSE Outcome(None, Bytes(AddressOf(data)), "None")

\* the first octets generate() rejects
not_valid == {10, 127, 169, 172, 192}
SampleOctets == {1, 10, 13, 255}

IPv4_generate(o) ==
    IF o.value # None THEN {Outcome(o, o.value, "None")}
    ELSE IF o.network # <<>>
         THEN {Outcome(o, PackedBits(q), "None") : q \in NetAddresses(o.network)}
    ELSE { LET ip == IPv4_encode(DottedQuad(<<first, b, c, d>>))
           IN  IF ip.err # "None" THEN Outcome(o, None, ip.err)
               ELSE IF ip.ret = None THEN Outcome(o, None, "AttributeError")
               ELSE Outcome(o, PackedBits(ip.ret.v), "None") :
           first \in SampleOctets \ not_valid, b \in SampleOctets,
           c \in SampleOctets, d \in SampleOctets }

IPv4_omit(o) ==
    IF o.network # <<>>
    THEN {"VALUE_LOCALHOST", "VALUE_PRIVATE", "VALUE_LINK", "VALUE_TESTNET",
          "VALUE_6TO4", "VALUE_MULTICAST", "VALUE_RESERVED", "VALUE_PUBLIC"}
    ELSE {"VALUE_HOST", "VALUE_BROADCAST", "VALUE_NET", "VALUE_ILLEGAL"}

IPv4_construct_boundary_values(o) ==
    [err |-> "None",
     list |-> TupleEntries(SelectSeq2(IPv4_BoundaryValue, IPv4_omit(o)))]

\* IPv4_tagValue without the assert: the first use of the network fails
IPv4_tagValue_noAssert(o, val) ==
    IF val \in {"VALUE_HOST", "VALUE_NET", "VALUE_ILLEGAL"} /\ o.network = <<>>
    THEN {Outcome(None, None, "AttributeError")}
    ELSE {Outcome(None, PackedBits(<<127, 0, 0, 1>>), "None")}

\* The address each tag picks, or the error raised
IPv4_tagValue(o, val) ==
    LET addr(qs) == {Outcome(None, PackedBits(q), "None") : q \in qs}
    IN  IF val \in {"VALUE_HOST", "VALUE_NET", "VALUE_ILLEGAL"}
        THEN IF o.network = <<>> THEN {Outcome(None, None, "AssertionError")}
             ELSE IF val = "VALUE_HOST" THEN addr(NetHosts(o.network))
             ELSE IF val = "VALUE_NET" THEN addr({NetBase(o.network)})
             ELSE addr(NetHosts(NetNext(o.network)))
        ELSE CASE val = "VALUE_LOCALHOST" -> addr({<<127, 0, 0, 1>>})
               [] val = "VALUE_PRIVATE" -> addr(NetHosts(<<192, 168, 0, 0, 16>>))
               [] val = "VALUE_LINK" -> addr(NetHosts(<<169, 254, 0, 0, 16>>))
               [] val = "VALUE_TESTNET" ->
                    addr(NetHosts(<<192, 0, 2, 0, 24>>) \cup NetHosts(<<198, 51, 100, 0, 24>>)
                         \cup NetHosts(<<203, 0, 113, 0, 24>>))
               [] val = "VALUE_6TO4" -> addr(NetHosts(<<192, 88, 99, 0, 24>>))
               [] val = "VALUE_MULTICAST" -> addr(NetHosts(<<224, 0, 0, 0, 16>>))
               [] val = "VALUE_RESERVED" -> addr(NetHosts(<<240, 0, 0, 0, 16>>))
               [] val = "VALUE_BROADCAST" ->
                    IF o.network # <<>> THEN addr({NetBroadcast(o.network)})
                    ELSE addr({<<255, 255, 255, 255>>})
               [] val = "VALUE_PUBLIC" -> addr(NetHosts(<<13, 37, 0, 0, 16>>))

IPv4_concretize(o, cav) ==
    IF "BoundaryValue" \in DOMAIN cav
    THEN IF cav["BoundaryValue"] \notin Names(IPv4_BoundaryValue)
         THEN {Outcome(o, None, "KeyError")}
         ELSE Pinned(o, IPv4_tagValue(o, cav["BoundaryValue"]), TRUE)
    ELSE {Outcome(o, None, "ValueError")}

\* _isValidIPv4Network: IPNetwork(network) parses and is version 4
IPv4_isValidIPv4Network(n) ==
    Len(n) = 5 /\ ValidQuad(SubSeq(n, 1, 4)) /\ n[5] \in 0..32

\* IPv4.__init__(value, network): the network setter rejects what is no
\* network; the value and the network are stored as given
IPv4_init(value, network) ==
    IF network # <<>> /\ ~IPv4_isValidIPv4Network(network)
    THEN Outcome(None, None, "TypeError")
    ELSE Outcome(NewObject("IPv4", value, 32, 32, None, network, 8), Self, "None")

\* ------------------------------------------------------- the objects
SizeBounds == {NoBound} \cup (0..MaxBits)
SizePairs ==
    {p \in SizeBounds \X SizeBounds : p[1] = NoBound \/ p[2] = NoBound \/ p[1] <= p[2]}
NbBytes ==
    {<<>>} \cup {<<n>> : n \in 0..MaxBytes}
    \cup {<<lo, hi>> : lo \in 0..1, hi \in (MaxBytes - 1)..MaxBytes}
Alphabets == {None, [t |-> "list", v |-> <<116, 111>>]}
UnitSizes == {8, 16}
Networks == {<<>>, <<192, 168, 0, 0, 24>>, <<10, 10, 10, 0, 24>>}
\* the network arguments handed to the constructor, one of them no network
NetworkArgs == Networks \cup {<<300, 168, 0, 0, 24>>}

\* The objects the constructors build (value=None, or a pinned value
\* whose length is the size)
Objects ==
    {NewObject("BitArray", None, p[1], p[2], None, <<>>, 8) : p \in SizePairs}
    \cup {NewObject("BitArray", Bits(<<1, 0, 1>>), 3, 3, None, <<>>, 8)}
    \cup {NewObject("HexaString", None, p[1], p[2], None, <<>>, 8) : p \in SizePairs}
    \cup {NewObject("HexaString", Bits(<<1, 0, 1, 0>>), 4, 4, None, <<>>, 8)}
    \cup {NewObject("Raw", None, Raw_convertNbBytesinNbBits(nb)[1],
                    Raw_convertNbBytesinNbBits(nb)[2], a, <<>>, u) :
            nb \in NbBytes, a \in Alphabets, u \in UnitSizes}
    \cup {NewObject("Raw", Bits(ByteBits(65)), 8, 8, None, <<>>, 8)}
    \cup {c.obj : c \in {c \in {IPv4_init(v, n) :
                                      v \in {None, PackedBits(<<192, 168, 0, 10>>)},
                                      n \in NetworkArgs} : c.err = "None"}}

AllTags ==
    Names(Raw_BoundaryValue) \cup Names(IPv4_BoundaryValue) \cup {"VALUE_BOGUS"}

\* The rows handed to concretize: any tag or none, and a size cell inside
\* an open range
SizeCellsOf(o) ==
    IF o.min = o.max \/ o.min = NoBound \/ o.max = NoBound THEN {}
    ELSE {c \in SizeCells : /\ StrToInt(c) >= o.min /\ StrToInt(c) <= o.max
                            /\ (o.kind = "Raw" => StrToInt(c) % 8 = 0)}
CaValues(o) ==
    {[k \in {} |-> ""]}
    \cup {[k \in {"BoundaryValue"} |-> tag] : tag \in AllTags}
    \cup {[k \in {"Size"} |-> c] : c \in SizeCellsOf(o)}
    \cup {[k \in {"BoundaryValue", "Size"} |-> IF k = "Size" THEN c ELSE tag] :
            tag \in AllTags, c \in SizeCellsOf(o)}

BitData == {Bits(b) : b \in UNION {BitSeqs(n) : n \in 0..MaxData}}
HexSample == {48, 97, 103, 255}
ByteData == {Bytes(b) : b \in UNION {[1..n -> HexSample] : n \in 0..2}}
RawData ==
    {Bits(BytesToBits(bs)) : bs \in UNION {[1..n -> {65, 116}] : n \in 0..MaxBytes}}
    \cup {Bits(<<1, 0, 1>>), Str([i \in 1..8 |-> 116]), Str([i \in 1..8 |-> 65]),
          Str(<<116>>), Bytes([i \in 1..8 |-> 116])}
QuadSample == {0, 10, 192, 255, 256}
IPData ==
    {DottedQuad(<<a, b, 0, d>>) : a \in QuadSample, b \in {0, 168, 255}, d \in QuadSample}
    \cup {DottedQuad(<<>>), DottedQuad(<<10, 10, 10, 7>>), DottedQuad(<<255, 255, 255, 255>>),
          Bytes(<<10, 10, 10>>), Bytes(<<10, 10, 10, 7>>), Bytes(<<10, 10, 10, 7, 1>>),
          Bytes(<<255, 255, 255, 0>>), Bytes(<<>>), IPAddress(<<10, 10, 10, 7>>)}

DataOf(kind) ==
    CASE kind = "BitArray" -> BitData \cup {None, Bytes(<<65>>), Str(<<65>>)}
      [] kind = "HexaString" -> ByteData \cup {None, Str(<<48>>), Bits(<<1, 0>>), Bits(<<>>)}
      [] kind = "Raw" -> RawData \cup {None}
      [] kind = "IPv4" -> IPData \cup {None}

\* ------------------------------------------------------- dispatch
concretize(o, cav) ==
    CASE o.kind = "BitArray" -> BitArray_concretize(o, cav)
      [] o.kind = "HexaString" -> HexaString_concretize(o, cav)
      [] o.kind = "Raw" -> Raw_concretize(o, cav)
      [] o.kind = "IPv4" -> IPv4_concretize(o, cav)

generate(o) ==
    CASE o.kind = "BitArray" -> BitArray_generate(o)
      [] o.kind = "HexaString" -> AbstractType_generate(o)
      [] o.kind = "Raw" -> Raw_generate(o)
      [] o.kind = "IPv4" -> IPv4_generate(o)

canParse(o, data) ==
    CASE o.kind = "BitArray" -> BitArray_canParse(o, data)
      [] o.kind = "HexaString" -> HexaString_canParse(o, data)
      [] o.kind = "Raw" -> Raw_canParse(o, data)
      [] o.kind = "IPv4" -> IPv4_canParse(o, data)

construct_boundary_values(o) ==
    CASE o.kind = "BitArray" -> BitArray_construct_boundary_values(o)
      [] o.kind = "HexaString" -> HexaString_construct_boundary_values(o)
      [] o.kind = "Raw" -> Raw_construct_boundary_values(o)
      [] o.kind = "IPv4" -> IPv4_construct_boundary_values(o)

encode(kind, data) ==
    CASE kind = "BitArray" -> BitArray_encode(data)
      [] kind = "HexaString" -> HexaString_encode(data)
      [] kind = "Raw" -> Raw_encode(data)
      [] kind = "IPv4" -> IPv4_encode(data)

decode(kind, data) ==
    CASE kind = "BitArray" -> BitArray_decode(data)
      [] kind = "HexaString" -> HexaString_decode(data)
      [] kind = "Raw" -> Raw_decode(data)
      [] kind = "IPv4" -> IPv4_decode(data)

\* ------------------------------------------------- Symbol: IPM and CA
\* Text is a sequence of atoms: an atom is a piece of text that is never
\* split ("_", "~", a letter, a member name).  Field names, column names,
\* file lines and covering-array cells are all text.
StartsWith(s, p) == Len(p) <= Len(s) /\ SubSeq(s, 1, Len(p)) = p
\* str.removeprefix
RemovePrefix(s, p) == IF StartsWith(s, p) THEN SubSeq(s, Len(p) + 1, Len(s)) ELSE s
\* f'{prefix}_{name}'
Under(prefix, name) == prefix \o <<"_">> \o name

\* AbstractType.IPM_PARAMS_PREFIX / AbstractVariable.IPM_PARAMS_PREFIX
IPM_PARAMS_PREFIX == <<"P">>
NEGATIVE_VALUE_PREFIX == <<"~">>

\* The values a dict of the IPM holds: a list of candidates, a nested
\* dict, or a type / variable object (id is its place in objs)
ListNode(entries) == [t |-> "list", list |-> entries, dict |-> <<>>, id |-> 0]
DictNode(d) == [t |-> "dict", list |-> <<>>, dict |-> d, id |-> 0]
TypeNode(id) == [t |-> "type", list |-> <<>>, dict |-> <<>>, id |-> id]
VarNode(id) == [t |-> "var", list |-> <<>>, dict |-> <<>>, id |-> id]

\* A dict keeps insertion order: a sequence of [k, v], d[k] = v replacing
\* the value of a key already there in place
Item(k, v) == [k |-> k, v |-> v]
Keys(d) == [i \in DOMAIN d |-> d[i].k]
HasKey(d, k) == \E i \in DOMAIN d : d[i].k = k
Get(d, k) == d[CHOOSE i \in DOMAIN d : d[i].k = k].v
DictSet(d, k, v) ==
    IF HasKey(d, k) THEN [i \in DOMAIN d |-> IF d[i].k = k THEN Item(k, v) ELSE d[i]]
    ELSE Append(d, Item(k, v))
\* dict.update
RECURSIVE DictUpdate(_, _)
DictUpdate(d, e) ==
    IF e = <<>> THEN d ELSE DictUpdate(DictSet(d, Head(e).k, Head(e).v), Tail(e))

\* Symbol._ipm_domain_rec, the loop over the params from the i-th on
RECURSIVE ipm_domain_rec_from(_, _, _, _)
\* _ipm_domain_rec storing an object, like a list, under '<prefix>_<param>'
ipm_domain_rec_from_underParam(domain, prefix, i, field_columns) ==
    IF i > Len(domain) THEN field_columns
    ELSE LET param == domain[i].k
             val == domain[i].v
             cols == IF val.t = "dict"
                     THEN DictUpdate(field_columns,
                                     ipm_domain_rec_from(val.dict, Under(prefix, param), 1, <<>>))
                     ELSE DictSet(field_columns, Under(prefix, param), val)
         IN  ipm_domain_rec_from(domain, prefix, i + 1, cols)

ipm_domain_rec_from(domain, prefix, i, field_columns) ==
    IF i > Len(domain) THEN field_columns
    ELSE LET param == domain[i].k
             val == domain[i].v
             cols == CASE val.t = "dict" ->
                            DictUpdate(field_columns,
                                       ipm_domain_rec_from(val.dict, Under(prefix, param), 1, <<>>))
                       [] val.t = "list" -> DictSet(field_columns, Under(prefix, param), val)
                       [] OTHER -> DictSet(field_columns, prefix, val)
         IN  ipm_domain_rec_from(domain, prefix, i + 1, cols)

ipm_domain_rec(domain, prefix) == ipm_domain_rec_from(domain, prefix, 1, <<>>)

\* A node of the field IPM: its domain (an empty dict when it has none)
\* and its named children
FieldIpm(domain, children) == [domain |-> domain, children |-> children]

\* Symbol.flatten_ipm_params; the children from the i-th on
RECURSIVE flatten_ipm_params(_, _)
RECURSIVE flatten_children_from(_, _, _, _)
flatten_children_from(children, prefix, i, field_columns) ==
    IF i > Len(children) THEN field_columns
    ELSE flatten_children_from(children, prefix, i + 1,
            DictUpdate(field_columns,
                       flatten_ipm_params(children[i].v, Under(prefix, children[i].k))))

\* flatten_ipm_params taking the children before the domain
flatten_ipm_params_childrenFirst(field_ipm, prefix) ==
    DictUpdate(flatten_children_from(field_ipm.children, prefix, 1, <<>>),
               IF field_ipm.domain # <<>> THEN ipm_domain_rec(field_ipm.domain, prefix)
               ELSE <<>>)

flatten_ipm_params(field_ipm, prefix) ==
    flatten_children_from(field_ipm.children, prefix, 1,
        IF field_ipm.domain # <<>> THEN ipm_domain_rec(field_ipm.domain, prefix) ELSE <<>>)

\* build_ipm, 319-321: the columns of every field of the symbol
RECURSIVE ipm_columns_from(_, _, _, _)
ipm_columns_from(ipm, name, i, ipm_columns) ==
    IF i > Len(ipm) THEN ipm_columns
    ELSE ipm_columns_from(ipm, name, i + 1,
            DictUpdate(ipm_columns, flatten_ipm_params(ipm[i].v, Under(name, ipm[i].k))))

\* Symbol.format_ipm_values: c[0] and c[1] of every entry.  Of a
\* (name, is_valid) tuple these are the name and the validity; of a bare
\* member name they are its first two characters, "V" and the non-empty
\* (true) "A".
EntryText(c) == IF c.tuple THEN <<c.name>> ELSE <<"V">>
EntryTruth(c) == IF c.tuple THEN c.valid ELSE TRUE
FormatEntry(c) == (IF EntryTruth(c) THEN <<>> ELSE NEGATIVE_VALUE_PREFIX) \o EntryText(c)
\* ','.join
RECURSIVE JoinComma(_)
JoinComma(ts) ==
    IF ts = <<>> THEN <<>>
    ELSE IF Len(ts) = 1 THEN ts[1]
    ELSE ts[1] \o <<",">> \o JoinComma(Tail(ts))
format_ipm_values(ipm_column) ==
    JoinComma([i \in DOMAIN ipm_column |-> FormatEntry(ipm_column[i])])

\* A file: absent, or its lines (a text file) / its rows of cells (a
\* tab-separated file)
NoFile == [exists |-> FALSE, lines |-> <<>>]
File(lines) == [exists |-> TRUE, lines |-> lines]

\* Symbol.output_ipm_pict: the lines written, one per list column
RECURSIVE ipm_lines_from(_, _)
ipm_lines_from(ipm_columns, i) ==
    IF i > Len(ipm_columns) THEN <<>>
    ELSE (IF ipm_columns[i].v.t = "list"
          THEN << ipm_columns[i].k \o <<":", " ">> \o format_ipm_values(ipm_columns[i].v.list) >>
          ELSE <<>>)
         \o ipm_lines_from(ipm_columns, i + 1)
output_ipm_pict(ipm_columns) == File(ipm_lines_from(ipm_columns, 1))

\* read_ca keeping the cells as they are
RECURSIVE read_ca_from_keep(_, _, _, _)
read_ca_from_keep(reader, i, parameters, rows) ==
    IF i > Len(reader) THEN [parameters |-> parameters, rows |-> rows]
    ELSE IF parameters = <<>>
         THEN read_ca_from_keep(reader, i + 1, reader[i], rows)
         ELSE read_ca_from_keep(reader, i + 1, parameters, Append(rows, reader[i]))

\* Symbol.read_ca: the rows of the reader from the i-th on; the header is
\* the first row that is not empty
RECURSIVE read_ca_from(_, _, _, _)
read_ca_from(reader, i, parameters, rows) ==
    IF i > Len(reader) THEN [parameters |-> parameters, rows |-> rows]
    ELSE IF parameters = <<>>
         THEN read_ca_from(reader, i + 1, reader[i], rows)
         ELSE read_ca_from(reader, i + 1, parameters,
                 Append(rows, [c \in DOMAIN reader[i] |->
                                 RemovePrefix(reader[i][c], NEGATIVE_VALUE_PREFIX)]))

read_ca(file, ca_format) ==
    IF ca_format = "pict"
    THEN IF ~file.exists
         THEN [err |-> "FileNotFoundError", opened |-> FALSE, parameters |-> <<>>, rows |-> <<>>]
         ELSE LET r == read_ca_from(file.lines, 1, <<>>, <<>>)
              IN  [err |-> "None", opened |-> TRUE, parameters |-> r.parameters, rows |-> r.rows]
    ELSE [err |-> "ValueError", opened |-> FALSE, parameters |-> <<>>, rows |-> <<>>]

\* build_ipm 336-348: the keys of the type objects' columns, and the two
\* models of the split
TypeKeys(ipm_columns) ==
    {ipm_columns[n].k : n \in {n \in DOMAIN ipm_columns :
        \E i \in DOMAIN ipm_columns :
            /\ ipm_columns[i].v.t = "type"
            /\ StartsWith(ipm_columns[n].k, ipm_columns[i].k)}}
type_ipm_of(ipm_columns) ==
    SelectSeq(ipm_columns, LAMBDA c : c.k \in TypeKeys(ipm_columns))
var_ipm_of(ipm_columns) ==
    SelectSeq(ipm_columns, LAMBDA c : c.k \notin TypeKeys(ipm_columns))

\* What a call of the symbol hands back: the error raised, and the
\* returned model(s), (parameters, rows) pair or message
NoOut ==
    [kind |-> "None", columns |-> <<>>, var_ipm |-> <<>>, type_ipm |-> <<>>,
     parameters |-> <<>>, rows |-> <<>>, opened |-> FALSE]

\* build_ipm taking every format but None for 'pict'
build_ipm_anyFormat(fs, sym, path, var_path, ipm_format) ==
    LET ipm_columns == ipm_columns_from(sym.ipm, sym.name, 1, <<>>)
    IN  IF ipm_format = "None"
        THEN [files |-> fs, err |-> "None",
              out |-> [NoOut EXCEPT !.kind = "columns", !.columns = ipm_columns]]
        ELSE [files |-> [fs EXCEPT ![path] = output_ipm_pict(ipm_columns)],
              err |-> "None", out |-> NoOut]

\* Symbol.build_ipm(path, var_path, ipm_format) on the field IPM the
\* specializer reports for the symbol: the files afterwards, the error
\* and the value returned.  var_path and ipm_format are "None" for None.
build_ipm(fs, sym, path, var_path, ipm_format) ==
    LET ipm_columns == ipm_columns_from(sym.ipm, sym.name, 1, <<>>)
        var_ipm == var_ipm_of(ipm_columns)
        type_ipm == type_ipm_of(ipm_columns)
        unsupported == [files |-> fs, err |-> "ValueError", out |-> NoOut]
    IN  IF var_path = "None"
        THEN IF ipm_format = "None"
             THEN [files |-> fs, err |-> "None",
                   out |-> [NoOut EXCEPT !.kind = "columns", !.columns = ipm_columns]]
             ELSE IF ipm_format = "pict"
                  THEN [files |-> [fs EXCEPT ![path] = output_ipm_pict(ipm_columns)],
                        err |-> "None", out |-> NoOut]
             ELSE unsupported
        ELSE IF ipm_format = "None"
             THEN [files |-> fs, err |-> "None",
                   out |-> [NoOut EXCEPT !.kind = "pair", !.var_ipm = var_ipm,
                                         !.type_ipm = type_ipm]]
             ELSE IF ipm_format = "pict"
                  THEN [files |-> [fs EXCEPT ![var_path] = output_ipm_pict(var_ipm),
                                             ![path] = output_ipm_pict(type_ipm)],
                        err |-> "None", out |-> NoOut]
             ELSE unsupported

\* specialize_from_ca 219-243: for every type / variable object of the
\* IPM, the (column index, stripped name) pairs of the columns that start
\* with its prefix
Enumerate(s) == [i \in DOMAIN s |-> [idx |-> i, name |-> s[i]]]
ParamPrefix(ipm_key) == Under(ipm_key, IPM_PARAMS_PREFIX) \o <<"_">>
ParamsOf(ipm_key, parameters) ==
    LET applicable_params ==
            SelectSeq(Enumerate(parameters),
                      LAMBDA e : StartsWith(e.name, ParamPrefix(ipm_key)))
    IN  [n \in DOMAIN applicable_params |->
            [idx |-> applicable_params[n].idx,
             name |-> RemovePrefix(applicable_params[n].name, ParamPrefix(ipm_key))]]
ColumnsOf(ipm, t, parameters) ==
    LET objects == SelectSeq(ipm, LAMBDA c : c.v.t = t)
    IN  [n \in DOMAIN objects |->
            [object |-> objects[n].v.id, key |-> objects[n].k,
             params |-> ParamsOf(objects[n].k, parameters)]]

\* {name: row[idx] for (idx, name) in params}
RECURSIVE RowValues(_, _, _, _)
RowValues(row, params, n, values) ==
    IF n > Len(params) THEN [err |-> "None", values |-> values]
    ELSE IF params[n].idx > Len(row) THEN [err |-> "IndexError", values |-> <<>>]
    ELSE RowValues(row, params, n + 1, DictSet(values, params[n].name, row[params[n].idx]))

\* The text of a key or a cell as the str the types look up
AsStr(text) == IF Len(text) = 1 THEN text[1] ELSE "?"
CaMapping(values) ==
    [k \in {AsStr(values[i].k) : i \in DOMAIN values} |->
        AsStr(values[CHOOSE i \in DOMAIN values :
                        /\ AsStr(values[i].k) = k
                        /\ \A j \in DOMAIN values : AsStr(values[j].k) = k => j <= i].v)]

\* AbstractVariable.concretize
Variable_concretize(o, cav) == {Outcome(o, Self, "None")}

\* col['object'].concretize(...)
Object_concretize(o, values) ==
    IF o.kind = "Variable" THEN Variable_concretize(o, CaMapping(values))
    ELSE concretize(o, CaMapping(values))

\* Symbol.specialize: the message of the specializer, None when it finds
\* no path
specialize(os) == {"message", "None"}

\* What the generator did, in order: a concretize call with the error it
\* raised ("None" when it returned), or the specialize call with what it
\* returned
Event(ev, id, table, row, values, res) ==
    [ev |-> ev, id |-> id, table |-> table, row |-> row, values |-> values, res |-> res]

\* for col in columns: col['object'].concretize({...}), from the k-th
\* column on.  st is [objs, log, err]: the objects, the events so far and
\* the error that ended the run.
RECURSIVE concretize_columns(_, _, _, _, _, _)
concretize_columns(cols, k, row, table, rowIdx, st) ==
    IF k > Len(cols) THEN {st}
    ELSE LET m == RowValues(row, cols[k].params, 1, <<>>)
             id == cols[k].object
         IN  IF m.err # "None" THEN {[st EXCEPT !.err = m.err]}
             ELSE UNION {
                LET raised == IF o.ret = NoReturn THEN "NoReturn" ELSE o.err
                    after == [objs |-> [st.objs EXCEPT ![id] = o.obj],
                              log |-> Append(st.log,
                                         Event("concretize", id, table, rowIdx, m.values,
                                               raised)),
                              err |-> raised]
                IN  IF after.err # "None" THEN {after}
                    ELSE concretize_columns(cols, k + 1, row, table, rowIdx, after)
                : o \in Object_concretize(st.objs[id], m.values) }

\* The generator between two suspensions.  g holds what the prologue
\* computed; inner_loop is `for var_row in var_rows` from its j-th round
\* on with the types of row i concretized, outer_loop `for row in
\* ca_rows` from its i-th round on.  The result is where the generator
\* stops: at a yield, at its end, or on an error.
\* without the single empty line that stands for a missing variable array
VarRounds_noEmptyLine(g) == Len(g.var_rows)
\* var_rows: the rows of the variable array, or [None]
VarRounds(g) == IF g.has_var THEN Len(g.var_rows) ELSE 1
Stop(pc, i, j, st, message) ==
    [pc |-> pc, i |-> i, j |-> j, objs |-> st.objs, log |-> st.log, err |-> st.err,
     message |-> message]

RECURSIVE outer_loop(_, _, _)
RECURSIVE inner_loop(_, _, _, _)
inner_loop(g, st, i, j) ==
    IF j > VarRounds(g) THEN outer_loop(g, st, i + 1)
    ELSE LET var_row == IF g.has_var THEN g.var_rows[j] ELSE g.ca_rows[i]
             table == IF g.has_var THEN "variable" ELSE "primary"
             rowIdx == IF g.has_var THEN j ELSE i
         IN  UNION {
                IF s.err = "NoReturn" THEN {Stop("hung", i, j, s, "None")}
                ELSE IF s.err # "None" THEN {Stop("raised", i, j, s, "None")}
                ELSE {Stop("suspended", i, j,
                           [s EXCEPT !.log = Append(s.log,
                                Event("specialize", 0, table, rowIdx, <<>>, msg))], msg)
                        : msg \in specialize(s.objs)}
                : s \in concretize_columns(g.variable_columns, 1, var_row, table, rowIdx, st) }

\* outer_loop concretizing the types after the variables' rounds
outer_loop_typesLast(g, st, i) ==
    IF i > Len(g.ca_rows) THEN {Stop("done", i, 0, st, "None")}
    ELSE UNION {
            IF s.pc # "suspended" THEN {s}
            ELSE {Stop(s.pc, s.i, s.j, t, s.message) :
                    t \in concretize_columns(g.type_columns, 1, g.ca_rows[i], "primary", i,
                                             [objs |-> s.objs, log |-> s.log, err |-> s.err])}
            : s \in inner_loop(g, st, i, 1) }

outer_loop(g, st, i) ==
    IF i > Len(g.ca_rows) THEN {Stop("done", i, 0, st, "None")}
    ELSE UNION {
            IF s.err = "NoReturn" THEN {Stop("hung", i, 0, s, "None")}
            ELSE IF s.err # "None" THEN {Stop("raised", i, 0, s, "None")}
            ELSE inner_loop(g, s, i, 1)
            : s \in concretize_columns(g.type_columns, 1, g.ca_rows[i], "primary", i, st) }

\* The generator object: not started ("created"), suspended at a yield,
\* or over (done, raised); "none" when there is no generator
NoGen ==
    [pc |-> "none", var_path |-> "None", ca_format |-> "None", has_var |-> FALSE,
     ca_parameters |-> <<>>, ca_rows |-> <<>>, var_parameters |-> <<>>, var_rows |-> <<>>,
     type_columns |-> <<>>, variable_columns |-> <<>>, i |-> 0, j |-> 0, yielded |-> 0,
     message |-> "None"]

\* specialize_from_ca 203-246, run by the first next(): the IPM, the two
\* arrays and the column mapping.  The error is that of read_ca.
Prologue(g, fs, sym) ==
    LET ipm == build_ipm(fs, sym, "None", "None", "None").out.columns
        first == read_ca(fs["ca"], g.ca_format)
        second == IF g.var_path # "None" THEN read_ca(fs[g.var_path], g.ca_format) ELSE first
        var_parameters == second.parameters
    IN  IF first.err # "None" THEN [err |-> first.err, g |-> g]
        ELSE IF second.err # "None" THEN [err |-> second.err, g |-> g]
        ELSE [err |-> "None",
              g |-> [g EXCEPT !.has_var = (g.var_path # "None"),
                              !.ca_parameters = first.parameters, !.ca_rows = first.rows,
                              !.var_parameters = var_parameters,
                              !.var_rows = IF g.var_path # "None" THEN second.rows ELSE <<>>,
                              !.type_columns = ColumnsOf(ipm, "type", first.parameters),
                              !.variable_columns = ColumnsOf(ipm, "var", var_parameters)]]

\* ------------------------------------------------------- the machine
\* One call at a time: op is "idle" between calls; a call records its
\* argument, its result and the error it raised, and Return hands control
\* back to the caller.
NoCa == [k \in {} |-> ""]

\* no symbol is involved in the calls on a single type
NoSymbol ==
    /\ symbol = [name |-> <<>>, objs |-> <<>>, ipm |-> <<>>]
    /\ objs = <<>>
    /\ files = [p \in {} |-> 0]
    /\ gen = NoGen
    /\ log = <<>>
    /\ result = NoOut

Init ==
    /\ NoSymbol
    /\ obj \in Objects
    /\ op = "idle"
    /\ arg = None
    /\ ca = NoCa
    /\ ret = None
    /\ err = "None"
    /\ bounds = <<>>

\* A size must be resolvable: the catalog was built for this object
Concretize ==
    /\ UNCHANGED symbolVars
    /\ op = "idle"
    /\ obj.max # NoBound
    /\ \E cav \in CaValues(obj) : \E out \in concretize(obj, cav) :
         /\ obj' = out.obj
         /\ op' = "concretize"
         /\ arg' = None
         /\ ca' = cav
         /\ ret' = out.ret
         /\ err' = out.err
         /\ bounds' = <<>>

Generate ==
    /\ UNCHANGED symbolVars
    /\ op = "idle"
    /\ \E out \in generate(obj) :
         /\ obj' = out.obj
         /\ op' = "generate"
         /\ arg' = None
         /\ ca' = NoCa
         /\ ret' = out.ret
         /\ err' = out.err
         /\ bounds' = <<>>

CanParse ==
    /\ UNCHANGED symbolVars
    /\ op = "idle"
    /\ \E data \in DataOf(obj.kind) :
       LET out == canParse(obj, data)
       IN  /\ obj' = out.obj
           /\ op' = "canParse"
           /\ arg' = data
           /\ ca' = NoCa
           /\ ret' = out.ret
           /\ err' = out.err
           /\ bounds' = <<>>

BoundaryValues ==
    /\ UNCHANGED symbolVars
    /\ op = "idle"
    /\ LET out == construct_boundary_values(obj)
       IN  /\ obj' = obj
           /\ op' = "boundaryValues"
           /\ arg' = None
           /\ ca' = NoCa
           /\ ret' = None
           /\ err' = out.err
           /\ bounds' = out.list

\* The call is over (it returned or raised); a call that never returns
\* stays where it is
Return ==
    /\ UNCHANGED symbolVars
    /\ op # "idle"
    /\ ret # NoReturn
    /\ obj' = obj
    /\ op' = "idle"
    /\ arg' = None
    /\ ca' = NoCa
    /\ ret' = None
    /\ err' = "None"
    /\ bounds' = <<>>

Next == Concretize \/ Generate \/ CanParse \/ BoundaryValues \/ Return

Spec == Init /\ [][Next]_vars

\* ------------------------------------------------- the static codecs
\* encode and decode are static methods: they read no object
InitCodec ==
    /\ NoSymbol
    /\ obj \in {o \in Objects : o.value = None /\ o.min = o.max /\ o.max \in {NoBound, 32}
                                /\ o.alphabet = None /\ o.network = <<>> /\ o.unitSize = 8}
    /\ op = "idle"
    /\ arg = None
    /\ ca = NoCa
    /\ ret = None
    /\ err = "None"
    /\ bounds = <<>>

CodecData == DataOf("BitArray") \cup DataOf("HexaString") \cup DataOf("Raw") \cup DataOf("IPv4")

Encode ==
    /\ UNCHANGED symbolVars
    /\ op = "idle"
    /\ \E data \in CodecData :
       LET out == encode(obj.kind, data)
       IN  /\ op' = "encode"
           /\ arg' = data
           /\ ret' = out.ret
           /\ err' = out.err
           /\ UNCHANGED <<obj, ca, bounds>>

Decode ==
    /\ UNCHANGED symbolVars
    /\ op = "idle"
    /\ \E data \in CodecData :
       LET out == decode(obj.kind, data)
       IN  /\ op' = "decode"
           /\ arg' = data
           /\ ret' = out.ret
           /\ err' = out.err
           /\ UNCHANGED <<obj, ca, bounds>>

\* decode(encode(x)): the error of the first call that raises
RoundTripOf(kind, x) ==
    LET e == encode(kind, x)
    IN  IF e.err # "None" THEN e ELSE decode(kind, e.ret)

RoundTrip ==
    /\ UNCHANGED symbolVars
    /\ op = "idle"
    /\ \E data \in DataOf(obj.kind) :
       LET out == RoundTripOf(obj.kind, data)
       IN  /\ op' = "roundtrip"
           /\ arg' = data
           /\ ret' = out.ret
           /\ err' = out.err
           /\ UNCHANGED <<obj, ca, bounds>>

NextCodec == Encode \/ Decode \/ RoundTrip \/ Return

SpecCodec == InitCodec /\ [][NextCodec]_vars

\* the types whose value is a bit content
BitKinds == {"BitArray", "HexaString", "Raw"}

\* ------------------------------------------- the VALUE_RAND loop
\* concretize with VALUE_RAND one draw at a time: op is "while" between
\* two tests of `while value in excluded`, ret the content drawn last.
RandObjects == {o \in Objects : o.kind \in BitKinds /\ o.max # NoBound}
RandRows(o) ==
    {cav \in CaValues(o) :
        "BoundaryValue" \in DOMAIN cav /\ cav["BoundaryValue"] = "VALUE_RAND"}

InitRand ==
    /\ NoSymbol
    /\ obj \in RandObjects
    /\ op = "idle"
    /\ arg = None
    /\ ca = NoCa
    /\ ret = None
    /\ err = "None"
    /\ bounds = <<>>

\* the call up to the first draw; on an empty bitarray excluded[2][0] = 1
\* raises IndexError
RandDraw ==
    /\ op = "idle"
    /\ \E cav \in RandRows(obj) :
         LET size == AbstractType_concretize(obj, cav, obj.alphabet # None)
         IN  /\ ca' = cav
             /\ IF size = 0
                THEN op' = "concretize" /\ ret' = None /\ err' = "IndexError"
                ELSE \E b \in RandomBits(size) :
                        op' = "while" /\ ret' = Bits(b) /\ err' = "None"
    /\ UNCHANGED <<obj, arg, bounds>>
    /\ UNCHANGED symbolVars

\* value in excluded: the body of the loop draws again
RandAgain ==
    /\ op = "while"
    /\ ret.v \in Excluded(Len(ret.v))
    /\ \E b \in RandomBits(Len(ret.v)) : ret' = Bits(b)
    /\ UNCHANGED <<obj, op, arg, ca, err, bounds>>
    /\ UNCHANGED symbolVars

\* a draw outside the exclusion list
RandAgainOutside == RandAgain /\ ret'.v \notin Excluded(Len(ret'.v))

\* value not in excluded: self.value = value; self.concretized = True
\* (not in Raw); return self
RandLeave ==
    /\ op = "while"
    /\ ret.v \notin Excluded(Len(ret.v))
    /\ obj' = [obj EXCEPT !.value = ret,
                          !.concretized = IF obj.kind = "Raw" THEN @ ELSE TRUE]
    /\ op' = "concretize"
    /\ ret' = Self
    /\ UNCHANGED <<arg, ca, err, bounds>>
    /\ UNCHANGED symbolVars

RandReturn ==
    /\ op = "concretize"
    /\ op' = "idle"
    /\ ca' = NoCa
    /\ ret' = None
    /\ err' = "None"
    /\ UNCHANGED <<obj, arg, bounds>>
    /\ UNCHANGED symbolVars

NextRand == RandDraw \/ RandAgain \/ RandLeave \/ RandReturn

\* The loop keeps drawing, and the random source is fair: a draw that
\* is possible again and again is made.
SpecRand ==
    /\ InitRand /\ [][NextRand]_vars
    /\ WF_vars(RandAgain) /\ WF_vars(RandLeave) /\ SF_vars(RandAgainOutside)


\* ------------------------------------------------- the symbol's calls
\* The field IPM the specializer reports (MessageSpecializer.build_ipm):
\* per field a domain and named children; the domain of a type or of a
\* variable holds its candidate lists under the params prefix and the
\* object itself.
TypeDomain(id, o) ==
    << Item(IPM_PARAMS_PREFIX,
            DictNode(<< Item(<<"BoundaryValue">>,
                             ListNode(construct_boundary_values(o).list)) >>)),
       Item(<<"type">>, TypeNode(id)) >>
VarDomain(id) ==
    << Item(IPM_PARAMS_PREFIX,
            DictNode(<< Item(<<"Choice">>,
                             ListNode(<< TupleEntry(<<"0", TRUE>>),
                                         TupleEntry(<<"1", FALSE>>) >>)) >>)),
       Item(<<"variable">>, VarNode(id)) >>
Variable == NewObject("Variable", None, 0, 0, None, <<>>, 8)

NewSymbol(objects, ipm) == [name |-> <<"S">>, objs |-> objects, ipm |-> ipm]

\* a bit field and a variable
Symbol_plain ==
    LET os == << NewObject("BitArray", None, 2, 2, None, <<>>, 8), Variable >>
    IN  NewSymbol(os, << Item(<<"f">>, FieldIpm(TypeDomain(1, os[1]), <<>>)),
                         Item(<<"v">>, FieldIpm(VarDomain(2), <<>>)) >>)
\* a byte buffer over the alphabet {t, o}
Symbol_raw ==
    LET os == << NewObject("Raw", None, 16, 16, [t |-> "list", v |-> <<116, 111>>], <<>>, 8) >>
    IN  NewSymbol(os, << Item(<<"f">>, FieldIpm(TypeDomain(1, os[1]), <<>>)) >>)
\* two fields, the name of one continuing the name of the other
Symbol_prefix ==
    LET os == << NewObject("BitArray", None, 1, 1, None, <<>>, 8),
                 NewObject("HexaString", None, 1, 1, None, <<>>, 8) >>
    IN  NewSymbol(os, << Item(<<"f">>, FieldIpm(TypeDomain(1, os[1]), <<>>)),
                         Item(<<"f">> \o <<"_">> \o IPM_PARAMS_PREFIX,
                              FieldIpm(TypeDomain(2, os[2]), <<>>)) >>)
\* a field without a domain and its child, an address in a network
Symbol_nested ==
    LET os == << IPv4_init(None, <<192, 168, 0, 0, 24>>).obj >>
    IN  NewSymbol(os, << Item(<<"h">>,
                              FieldIpm(<<>>, << Item(<<"c">>,
                                                     FieldIpm(TypeDomain(1, os[1]), <<>>)) >>)) >>)
\* a variable field whose domain nests a sub-domain, with two children,
\* and a second field after it
Symbol_tree ==
    LET os == << NewObject("BitArray", None, 1, 1, None, <<>>, 8), Variable,
                 NewObject("HexaString", None, 1, 1, None, <<>>, 8) >>
        switch == ListNode(<< TupleEntry(<<"0", TRUE>>), TupleEntry(<<"1", FALSE>>) >>)
        domain == << Item(IPM_PARAMS_PREFIX,
                          DictNode(<< Item(<<"Choice">>, switch),
                                      Item(<<"Sub">>,
                                           DictNode(<< Item(<<"x">>, switch),
                                                       Item(<<"y">>, switch) >>)) >>)),
                     Item(<<"variable">>, VarNode(2)) >>
    IN  NewSymbol(os, << Item(<<"a">>,
                              FieldIpm(domain,
                                       << Item(<<"b">>, FieldIpm(TypeDomain(1, os[1]), <<>>)),
                                          Item(<<"c">>, FieldIpm(<<>>, <<>>)) >>)),
                         Item(<<"d">>, FieldIpm(TypeDomain(3, os[3]), <<>>)) >>)
\* a field whose domain reports two objects, a variable and its type
Symbol_pair ==
    LET os == << Variable, NewObject("BitArray", None, 1, 1, None, <<>>, 8) >>
    IN  NewSymbol(os, << Item(<<"v">>,
                              FieldIpm(VarDomain(1) \o << Item(<<"type">>, TypeNode(2)) >>,
                                       <<>>)) >>)
\* a typed field f and a variable field f2
Symbol_split ==
    LET os == << NewObject("BitArray", None, 1, 1, None, <<>>, 8), Variable >>
    IN  NewSymbol(os, << Item(<<"f">>, FieldIpm(TypeDomain(1, os[1]), <<>>)),
                         Item(<<"f", "2">>, FieldIpm(VarDomain(2), <<>>)) >>)
Symbols ==
    {Symbol_plain, Symbol_raw, Symbol_prefix, Symbol_nested, Symbol_tree, Symbol_pair,
     Symbol_split}

Paths == {"ipm", "var_ipm", "ca", "var_ca"}
NoFiles == [p \in Paths |-> NoFile]

\* The external generator: it reads a parameter model file, one
\* `name: v1,v2,...` line per column, and writes the column names and
\* rows that pick one of the values of every column.
FirstIndex(s, a) == CHOOSE i \in DOMAIN s : s[i] = a /\ \A j \in 1..(i - 1) : s[j] # a
RECURSIVE Split(_, _)
Split(s, sep) ==
    IF sep \notin Elems(s) THEN <<s>>
    ELSE <<SubSeq(s, 1, FirstIndex(s, sep) - 1)>>
         \o Split(SubSeq(s, FirstIndex(s, sep) + 1, Len(s)), sep)
LineName(line) == SubSeq(line, 1, FirstIndex(line, ":") - 1)
LineValues(line) == Split(SubSeq(line, FirstIndex(line, ":") + 2, Len(line)), ",")
MaxRows == 2
\* the k-th row of the array that starts at the shift-th value of every
\* column and steps through the values of every column in turn
GeneratedRow(lines, shift, k) ==
    [c \in DOMAIN lines |->
        LET values == LineValues(lines[c])
        IN  values[((shift + k + c - 2) % Len(values)) + 1]]
MaxShift == 3
GeneratedArrays(lines) ==
    LET header == [c \in DOMAIN lines |-> LineName(lines[c])]
    IN  {<<header>> \o [k \in 1..n |-> GeneratedRow(lines, shift, k)] :
            n \in 0..MaxRows, shift \in 0..MaxShift}

\* Arrays written by hand: an empty first line, a doubled marker, a
\* marker inside a cell, a marked column name, a short row, no line
HandArrays ==
    { << <<>>, << <<"a">>, <<"b">> >>, << <<"~", "3">>, <<"x">> >> >>,
      << << <<"a">>, <<"~", "b">> >>, << <<"~", "3">>, <<"~", "~", "3">> >>,
         << <<"3", "~">>, <<>> >> >>,
      << << <<"a">>, <<"b">> >>, <<>>, << <<"1">> >> >>,
      << >> }

\* One call at a time, as for the types: op is the call that was made
InitSymbol ==
    /\ symbol \in Symbols
    /\ objs = symbol.objs
    /\ files = NoFiles
    /\ gen = NoGen
    /\ log = <<>>
    /\ result = NoOut
    /\ op = "idle"
    /\ err = "None"
    /\ obj = DefaultIPv4
    /\ arg = None
    /\ ca = NoCa
    /\ ret = None
    /\ bounds = <<>>

Formats == {"None", "pict", "xml"}
\* the arguments of a call
Args(a) == [t |-> "args", v |-> a]

\* symbol.build_ipm("ipm", var_path, ipm_format=...)
BuildIpm ==
    /\ op = "idle"
    /\ gen.pc = "none"
    /\ \E var_path \in {"None", "var_ipm"}, ipm_format \in Formats :
         LET r == build_ipm(files, symbol, "ipm", var_path, ipm_format)
         IN  /\ files' = r.files
             /\ err' = r.err
             /\ result' = r.out
             /\ op' = "build_ipm"
             /\ arg' = Args(<<var_path, ipm_format>>)
    /\ UNCHANGED <<symbol, objs, gen, log, obj, ca, ret, bounds>>

\* the generator run on a parameter model file, or an array written by hand
WriteCa ==
    /\ op = "idle"
    /\ gen.pc = "none"
    /\ \E p \in {<<"ipm", "ca">>, <<"var_ipm", "var_ca">>} :
         /\ ~files[p[2]].exists
         /\ \E a \in (IF files[p[1]].exists THEN GeneratedArrays(files[p[1]].lines) ELSE {})
                     \cup HandArrays :
              files' = [files EXCEPT ![p[2]] = File(a)]
    /\ op' = "generator"
    /\ UNCHANGED <<symbol, objs, gen, log, result, err, obj, arg, ca, ret, bounds>>

\* Symbol.read_ca(path, ca_format)
ReadCa ==
    /\ op = "idle"
    /\ gen.pc = "none"
    /\ \E p \in {"ca", "var_ca"}, ca_format \in {"pict", "csv"} :
         LET r == read_ca(files[p], ca_format)
         IN  /\ err' = r.err
             /\ result' = [NoOut EXCEPT !.kind = IF r.err = "None" THEN "ca" ELSE "None",
                                     !.parameters = r.parameters, !.rows = r.rows,
                                     !.opened = r.opened]
             /\ arg' = Args(<<p, ca_format>>)
    /\ op' = "read_ca"
    /\ UNCHANGED <<symbol, objs, files, gen, log, obj, ca, ret, bounds>>

\* symbol.specialize_from_ca("ca", var_path, ca_format): a generator
\* object; none of its body runs before the first next()
SpecializeFromCa ==
    /\ op = "idle"
    /\ gen.pc = "none"
    /\ \E var_path \in {"None", "var_ca"}, ca_format \in {"pict", "csv"} :
         gen' = [NoGen EXCEPT !.pc = "created", !.var_path = var_path,
                              !.ca_format = ca_format]
    /\ op' = "specialize_from_ca"
    /\ UNCHANGED <<symbol, objs, files, log, result, err, obj, arg, ca, ret, bounds>>

\* next(generator): the prologue on the first call, then the loops up to
\* the next yield, the end (StopIteration) or an error
GenNext ==
    /\ op = "idle"
    /\ gen.pc \in {"created", "suspended"}
    /\ LET st == [objs |-> objs, log |-> log, err |-> "None"]
           pro == IF gen.pc = "created" THEN Prologue(gen, files, symbol)
                  ELSE [err |-> "None", g |-> gen]
           stops == IF pro.err # "None"
                    THEN {Stop("raised", 0, 0, [st EXCEPT !.err = pro.err], "None")}
                    ELSE IF gen.pc = "created" THEN outer_loop(pro.g, st, 1)
                    ELSE inner_loop(pro.g, st, gen.i, gen.j + 1)
       IN  \E s \in stops :
             /\ gen' = [pro.g EXCEPT !.pc = s.pc, !.i = s.i, !.j = s.j,
                                     !.message = s.message,
                                     !.yielded = IF s.pc = "suspended" THEN @ + 1 ELSE @]
             /\ objs' = s.objs
             /\ log' = s.log
             /\ err' = IF s.pc = "done" THEN "StopIteration" ELSE s.err
    /\ op' = "next"
    /\ UNCHANGED <<symbol, files, result, obj, arg, ca, ret, bounds>>

ReturnSymbol ==
    /\ op # "idle"
    /\ gen.pc # "hung"
    /\ op' = "idle"
    /\ err' = "None"
    /\ result' = NoOut
    /\ arg' = None
    /\ UNCHANGED <<symbol, objs, files, gen, log, obj, ca, ret, bounds>>

NextSymbol == BuildIpm \/ WriteCa \/ ReadCa \/ SpecializeFromCa \/ GenNext \/ ReturnSymbol

SpecSymbol == InitSymbol /\ [][NextSymbol]_vars

\* ------------------------------------------------------------ claims
HasTag == "BoundaryValue" \in DOMAIN ca
Tag == ca["BoundaryValue"]
CatalogNames(o) ==
    LET l == construct_boundary_values(o).list IN {l[i].name : i \in DOMAIN l}
\* the size the last concretize resolved (the size range is never written)
ResolvedSize == AbstractType_concretize(obj, ca, obj.alphabet # None)
DeterministicTags ==
    {"VALUE_NONE", "VALUE_ALL", "VALUE_MSB", "VALUE_LSB", "VALUE_TOPHALF", "VALUE_BOTTOMHALF"}

\* a tag of the object's catalog that is also applicable at the size the
\* call resolves
ValidTag ==
    /\ HasTag
    /\ Tag \in CatalogNames(obj)
    /\ Tag \in CatalogNames([obj EXCEPT !.max = ResolvedSize])

\* C1: a concretize call given a valid boundary tag pins a bit value, sets
\* concretized and returns the object it was called on.
C1_ConcretizePinsAndFlags ==
    (op = "concretize" /\ ValidTag)
        => (err = "None" /\ ret = Self /\ obj.value.t = "bitarray" /\ obj.concretized)

\* C2 as stated: without the BoundaryValue key concretize fails with a
\* dedicated ConstraintError and concretized is unset.
C2_MissingSelectorConstraintError ==
    (op = "concretize" /\ ~HasTag) => (err = "ConstraintError" /\ ~obj.concretized)

\* C2 amended: without the BoundaryValue key concretize raises the built-in
\* ValueError and leaves the object, its concretized flag included, as it was.
C2_MissingSelectorValueError ==
    [][(op' = "concretize" /\ "BoundaryValue" \notin DOMAIN ca')
          => (err' = "ValueError" /\ obj' = obj)]_vars

C2_Witness ==
    op = "concretize" /\ ~HasTag /\ err = "ValueError" /\ ~obj.concretized
    /\ obj.kind = "HexaString"

\* what each deterministic tag denotes on n bits
TagContent(tag, v, n) ==
    CASE tag = "VALUE_NONE" -> \A i \in 1..n : v[i] = 0
      [] tag = "VALUE_ALL" -> \A i \in 1..n : v[i] = 1
      [] tag = "VALUE_MSB" -> \A i \in 1..n : (v[i] = 1) <=> (i = 1)
      [] tag = "VALUE_LSB" -> \A i \in 1..n : (v[i] = 1) <=> (i = n)
      [] tag = "VALUE_TOPHALF" -> \A i \in 1..n : (v[i] = 1) <=> (i <= n \div 2)
      [] tag = "VALUE_BOTTOMHALF" -> \A i \in 1..n : (v[i] = 1) <=> (i > n \div 2)

TagRealised ==
    /\ err = "None"
    /\ obj.value.t = "bitarray"
    /\ Len(obj.value.v) = ResolvedSize
    /\ TagContent(Tag, obj.value.v, ResolvedSize)

\* C3 as stated: for every resolved size n, a deterministic generic tag
\* yields exactly n bits with the tag's content.
C3_GenericTagEverySize ==
    (op = "concretize" /\ obj.kind \in BitKinds /\ HasTag /\ Tag \in DeterministicTags)
        => TagRealised

\* C3 amended: the same for every resolved size n >= 1 (on an empty value
\* VALUE_MSB and VALUE_LSB index past the end).
C3_GenericTagPositiveSize ==
    (op = "concretize" /\ obj.kind \in BitKinds /\ HasTag /\ Tag \in DeterministicTags
     /\ ResolvedSize >= 1)
        => TagRealised

C3_Witness ==
    op = "concretize" /\ obj.kind = "Raw" /\ HasTag /\ Tag = "VALUE_BOTTOMHALF"
    /\ ResolvedSize = 16 /\ obj.value = Bits(BytesToBits(<<0, 255>>))

\* C4: with a value pinned, generate returns exactly that value.
C4_GenerateReturnsPinned ==
    (op = "generate" /\ obj.value # None) => (err = "None" /\ ret = obj.value)

\* the bit length of a canParse input in the container the variant reads
Container(kind) == IF kind \in {"BitArray", "Raw"} THEN "bitarray" ELSE "bytes"
BitLength(data) == IF data.t = "bitarray" THEN Len(data.v) ELSE 8 * Len(data.v)
OutOfRange(o, n) ==
    n = 0 \/ (o.min # NoBound /\ n < o.min) \/ (o.max # NoBound /\ n > o.max)

\* C5: canParse returns false for an empty input and for an input whose
\* bit length is outside the configured [min_bits, max_bits].
C5_CanParseRejectsOutOfRange ==
    (op = "canParse" /\ arg.t = Container(obj.kind) /\ OutOfRange(obj, BitLength(arg)))
        => (err = "None" /\ ret = Bool(FALSE))

C7_CanParseNeverRaisesOnData ==
    op = "canParse"
        => IF arg = None THEN err = "TypeError"
           ELSE err = "None" /\ ret \in {Bool(TRUE), Bool(FALSE)}

\* C8: decode(encode(x)) succeeds and equals x for every x the variant's
\* canParse accepts (for HexaString, of even length).
C8_DecodeEncodeRoundTrip ==
    (op = "roundtrip" /\ canParse(obj, arg).ret = Bool(TRUE)
     /\ (obj.kind = "HexaString" => Len(arg.v) % 2 = 0))
        => (err = "None" /\ ret = arg)

BoundNames == {bounds[i].name : i \in DOMAIN bounds}

\* C9: the catalog of a BitArray, HexaString or alphabet-free Raw always
\* holds VALUE_NONE and VALUE_ALL, holds VALUE_MSB and VALUE_LSB iff
\* max_bits >= 2, VALUE_BOTTOMHALF and VALUE_RAND iff max_bits >= 3, and
\* VALUE_TOPHALF iff max_bits >= 4.
C9_GenericCatalogThresholds ==
    (op = "boundaryValues" /\ err = "None" /\ obj.kind \in BitKinds /\ obj.alphabet = None)
        => /\ {"VALUE_NONE", "VALUE_ALL"} \subseteq BoundNames
           /\ \A t \in {"VALUE_MSB", "VALUE_LSB"} : t \in BoundNames <=> obj.max >= 2
           /\ \A t \in {"VALUE_BOTTOMHALF", "VALUE_RAND"} : t \in BoundNames <=> obj.max >= 3
           /\ "VALUE_TOPHALF" \in BoundNames <=> obj.max >= 4

C9_Witness ==
    /\ op = "boundaryValues" /\ err = "None" /\ obj.kind = "HexaString" /\ obj.max = 3
    /\ "VALUE_RAND" \in BoundNames /\ "VALUE_TOPHALF" \notin BoundNames

LegalityTags ==
    {"VALUE_LEGAL", "VALUE_ILLEGAL_START", "VALUE_ILLEGAL_END", "VALUE_ILLEGAL_RAND"}

\* C10: a Raw with an alphabet exposes no generic bit tag, always exposes
\* VALUE_LEGAL and VALUE_ILLEGAL_START, VALUE_ILLEGAL_END iff the maximum
\* size is at least 2 units and VALUE_ILLEGAL_RAND iff it is at least 3
\* units; a Raw without an alphabet exposes none of the four.
C10_RawAlphabetCatalog ==
    (op = "boundaryValues" /\ err = "None" /\ obj.kind = "Raw")
        => IF obj.alphabet # None
           THEN /\ BoundNames \cap Names(GenericTags) = {}
                /\ {"VALUE_LEGAL", "VALUE_ILLEGAL_START"} \subseteq BoundNames
                /\ "VALUE_ILLEGAL_END" \in BoundNames <=> obj.max >= 2 * obj.unitSize
                /\ "VALUE_ILLEGAL_RAND" \in BoundNames <=> obj.max >= 3 * obj.unitSize
           ELSE BoundNames \cap LegalityTags = {}

C10_Witness ==
    /\ op = "boundaryValues" /\ err = "None" /\ obj.kind = "Raw" /\ obj.alphabet # None
    /\ obj.max = 16 /\ obj.unitSize = 8
    /\ "VALUE_ILLEGAL_END" \in BoundNames /\ "VALUE_ILLEGAL_RAND" \notin BoundNames

\* the enumeration of a type
BoundaryValue(kind) ==
    CASE kind = "BitArray" -> BitArray_BoundaryValue
      [] kind = "HexaString" -> HexaString_BoundaryValue
      [] kind = "Raw" -> Raw_BoundaryValue
      [] kind = "IPv4" -> IPv4_BoundaryValue

\* C11: every entry of the catalog a type returns for the BoundaryValue
\* column is a (tag name, is_valid) pair, is_valid being the validity the
\* type's enumeration gives the tag.
C11_CatalogEntriesArePairs ==
    (op = "boundaryValues" /\ err = "None")
        => \A i \in DOMAIN bounds :
              /\ bounds[i].tuple
              /\ \E j \in DOMAIN BoundaryValue(obj.kind) :
                    BoundaryValue(obj.kind)[j] = <<bounds[i].name, bounds[i].valid>>

NetworkTags == {"VALUE_HOST", "VALUE_NET", "VALUE_ILLEGAL"}
FreeTags ==
    {"VALUE_LOCALHOST", "VALUE_PRIVATE", "VALUE_LINK", "VALUE_TESTNET", "VALUE_6TO4",
     "VALUE_MULTICAST", "VALUE_RESERVED", "VALUE_PUBLIC", "VALUE_BROADCAST"}

\* C12: the IPv4 catalog holds VALUE_HOST, VALUE_NET and VALUE_ILLEGAL
\* exactly when a network is configured, and the nine tags that need no
\* configured constraint (VALUE_BROADCAST among them) exactly when none is.
C12_IPv4CatalogSplit ==
    (op = "boundaryValues" /\ err = "None" /\ obj.kind = "IPv4")
        => /\ \A t \in NetworkTags : t \in BoundNames <=> obj.network # <<>>
           /\ \A t \in FreeTags : t \in BoundNames <=> obj.network = <<>>

\* C13: no IPv4 object leaves its constructor with both a value and a
\* network (an IPv4 that was never concretized holds the value it was
\* constructed with).
C13_ValueExcludesNetwork ==
    (obj.kind = "IPv4" /\ ~obj.concretized)
        => ~(obj.value # None /\ obj.network # <<>>)

\* C14 as stated: a network-dependent tag on an IPv4 without a network
\* fails with a ConstraintError and leaves the object as it was.
C14_NoNetworkConstraintError ==
    (op = "concretize" /\ obj.kind = "IPv4" /\ obj.network = <<>> /\ HasTag
     /\ Tag \in NetworkTags)
        => err = "ConstraintError"

\* C14 amended: a network-dependent tag on an IPv4 without a network fails
\* on the assert, with an AssertionError (not the ValueError of a missing
\* selector), and leaves the value and the concretized flag as they were.
C14_NoNetworkAssertionError ==
    [][(/\ op' = "concretize" /\ obj.kind = "IPv4" /\ obj.network = <<>>
        /\ "BoundaryValue" \in DOMAIN ca' /\ ca'["BoundaryValue"] \in NetworkTags)
          => (err' = "AssertionError" /\ ret' = None /\ obj' = obj)]_vars

C14_Witness ==
    /\ op = "concretize" /\ obj.kind = "IPv4" /\ obj.network = <<>> /\ HasTag
    /\ Tag = "VALUE_NET" /\ err = "AssertionError" /\ obj.value = None
    /\ ~obj.concretized

\* the flattened model of the symbol and its type / variable objects
Columns == ipm_columns_from(symbol.ipm, symbol.name, 1, <<>>)
ObjectKeys(t) == {n \in DOMAIN Columns : Columns[n].v.t = t}
\* the tags of a type's catalog as the generator input names them: the
\* full member name, marked when the member is invalid
RenderedTags(o) ==
    LET members == SelectSeq(BoundaryValue(o.kind), LAMBDA m : m[1] \in CatalogNames(o))
    IN  [i \in DOMAIN members |->
            (IF members[i][2] THEN <<>> ELSE <<"~">>) \o <<members[i][1]>>]
BoundaryLine(n) ==
    ParamPrefix(Columns[n].k) \o <<"BoundaryValue">> \o <<":", " ">>
    \o JoinComma(RenderedTags(symbol.objs[Columns[n].v.id]))

\* C15: the generator input written for a symbol holds, for the boundary
\* column of every type object, exactly one line `<name>: <tags>`, the
\* tags being the full names of the catalog's tags in order, separated by
\* commas, an invalid tag preceded by one '~' and a valid one by nothing.
C15_GeneratorInputLines ==
    (op = "build_ipm" /\ err = "None" /\ arg.v[2] = "pict")
        => \A n \in ObjectKeys("type") :
              Cardinality({l \in DOMAIN files["ipm"].lines :
                              files["ipm"].lines[l] = BoundaryLine(n)}) = 1

\* C16: build_ipm with ipm_format None returns the in-memory model and
\* writes no file; with a format that is neither None nor 'pict' it raises
\* and writes no file, with and without var_path; read_ca with a format
\* other than 'pict' raises without opening the file.
C16_UnsupportedFormatFails ==
    [][/\ (op' = "build_ipm" /\ arg'.v[2] = "None")
            => /\ err' = "None"
               /\ files' = files
               /\ result'.kind = (IF arg'.v[1] = "None" THEN "columns" ELSE "pair")
               /\ arg'.v[1] = "None" => result'.columns = Columns
       /\ (op' = "build_ipm" /\ arg'.v[2] \notin {"None", "pict"})
            => (err' = "ValueError" /\ files' = files /\ result' = NoOut)
       /\ (op' = "read_ca" /\ arg'.v[2] # "pict")
            => (err' = "ValueError" /\ ~result'.opened /\ result'.kind = "None")]_vars

C16_Witness ==
    /\ op = "build_ipm" /\ arg.v = <<"var_ipm", "xml">> /\ err = "ValueError"
    /\ \A p \in Paths : ~files[p].exists

\* a cell without one leading negation marker
Stripped(cell) == IF cell # <<>> /\ Head(cell) = "~" THEN Tail(cell) ELSE cell
ReadFile == files[arg.v[1]].lines
RowsAfterFirst ==
    [k \in 1..(Len(ReadFile) - 1) |->
        [c \in DOMAIN ReadFile[k + 1] |-> Stripped(ReadFile[k + 1][c])]]

\* C17 as stated: read_ca returns the first row as the column names and
\* every later row, in order, with one leading '~' taken off each cell;
\* N+1 rows give N assignment rows.
C17_ReadCaFirstRowIsHeader ==
    (op = "read_ca" /\ err = "None" /\ Len(ReadFile) >= 1)
        => /\ result.parameters = ReadFile[1]
           /\ result.rows = RowsAfterFirst
           /\ Len(result.rows) = Len(ReadFile) - 1

\* C17 amended: the same when the first row is not empty (an empty first
\* line is passed over and the next row is taken for the column names).
C17_ReadCaNonEmptyHeader ==
    (op = "read_ca" /\ err = "None" /\ Len(ReadFile) >= 1 /\ ReadFile[1] # <<>>)
        => /\ result.parameters = ReadFile[1]
           /\ result.rows = RowsAfterFirst
           /\ Len(result.rows) = Len(ReadFile) - 1

C17_Witness ==
    /\ op = "read_ca" /\ err = "None" /\ Len(ReadFile) = 3
    /\ result.parameters = << <<"a">>, <<"~", "b">> >>
    /\ result.rows = << << <<"3">>, <<"~", "3">> >>, << <<"3", "~">>, <<>> >> >>

\* the rounds of the two loops of the generator
PrimaryRows == Len(gen.ca_rows)
VariableRows == IF gen.has_var THEN Len(gen.var_rows) ELSE 1

\* C18: the generator yields one message per primary row without a
\* variable array and one per (primary row, variable row) pair with one,
\* primary row first: the k-th message is the one of the pair it stands
\* at, and the generator ends after |primary rows| x |variable rows| of them.
C18_MessageCount ==
    /\ gen.pc = "suspended"
         => /\ gen.i \in 1..PrimaryRows /\ gen.j \in 1..VariableRows
            /\ gen.yielded = (gen.i - 1) * VariableRows + gen.j
    /\ gen.pc = "done" => gen.yielded = PrimaryRows * VariableRows
    /\ gen.yielded <= PrimaryRows * VariableRows

C18_Witness ==
    /\ gen.pc = "done" /\ gen.has_var /\ PrimaryRows = 2 /\ Len(gen.var_rows) = 2
    /\ gen.yielded = 4

\* the events of the generator: the last concretization of an object and
\* the specialization before the last one
LastOf(id) ==
    IF \E n \in DOMAIN log : log[n].ev = "concretize" /\ log[n].id = id
    THEN CHOOSE n \in DOMAIN log :
            /\ log[n].ev = "concretize" /\ log[n].id = id
            /\ \A m \in DOMAIN log : (log[m].ev = "concretize" /\ log[m].id = id) => m <= n
    ELSE 0
PreviousYield ==
    IF \E n \in 1..(Len(log) - 1) : log[n].ev = "specialize"
    THEN CHOOSE n \in 1..(Len(log) - 1) :
            /\ log[n].ev = "specialize"
            /\ \A m \in 1..(Len(log) - 1) : log[m].ev = "specialize" => m <= n
    ELSE 0
TypeIds == {gen.type_columns[n].object : n \in DOMAIN gen.type_columns}
VariableIds == {gen.variable_columns[n].object : n \in DOMAIN gen.variable_columns}

\* C19: when a message is yielded, every type object was last concretized
\* from the current primary row, after that every variable object from
\* the current variable row (the primary row without a variable array),
\* after that the specializer was called, once since the previous
\* message, and no row after the current ones has been used.
C19_ConcretizeThenSpecialize ==
    (op = "next" /\ gen.pc = "suspended")
        => /\ log # <<>> /\ log[Len(log)].ev = "specialize"
           /\ Cardinality({n \in DOMAIN log : log[n].ev = "specialize"}) = gen.yielded
           /\ \A t \in TypeIds :
                /\ LastOf(t) > 0
                /\ log[LastOf(t)].table = "primary" /\ log[LastOf(t)].row = gen.i
                /\ \A v \in VariableIds : LastOf(t) < LastOf(v)
           /\ \A v \in VariableIds :
                /\ LastOf(v) > PreviousYield /\ LastOf(v) < Len(log)
                /\ log[LastOf(v)].table = (IF gen.has_var THEN "variable" ELSE "primary")
                /\ log[LastOf(v)].row = (IF gen.has_var THEN gen.j ELSE gen.i)
           /\ \A n \in DOMAIN log :
                log[n].row <= (IF log[n].table = "primary" THEN gen.i
                               ELSE IF n > PreviousYield THEN gen.j ELSE Len(gen.var_rows))

C19_Witness ==
    /\ op = "next" /\ gen.pc = "suspended" /\ gen.has_var /\ gen.i = 2 /\ gen.j = 2
    /\ TypeIds # {} /\ VariableIds # {}
    /\ log[Len(log)].ev = "specialize"

\* the columns of an array that the model lists for an object: the list
\* columns under the object's key and the params prefix
KeyOf(id) ==
    Columns[CHOOSE n \in DOMAIN Columns :
                Columns[n].v.t \in {"type", "var"} /\ Columns[n].v.id = id].k
DomainOf(id) ==
    IF symbol.objs[id].kind = "Variable" THEN VarDomain(id)
    ELSE TypeDomain(id, symbol.objs[id])
OwnHeaders(id) ==
    LET params == Get(DomainOf(id), IPM_PARAMS_PREFIX).dict
    IN  {ParamPrefix(KeyOf(id)) \o params[n].k : n \in DOMAIN params}
HeaderOf(e) == IF e.table = "primary" THEN gen.ca_parameters ELSE gen.var_parameters
RowOf(e) == IF e.table = "primary" THEN gen.ca_rows[e.row] ELSE gen.var_rows[e.row]

\* C20: every concretization is given exactly the columns of its array
\* whose name starts with the object's prefix, under the name without the
\* prefix and with the cell of the current row, and none of them is a
\* column of another object.
C20_ColumnsRoutedToOwner ==
    \A n \in DOMAIN log :
        log[n].ev = "concretize"
            => LET e == log[n]
                   prefix == ParamPrefix(KeyOf(e.id))
               IN  /\ \A c \in DOMAIN HeaderOf(e) :
                        StartsWith(HeaderOf(e)[c], prefix)
                            => /\ HasKey(e.values, RemovePrefix(HeaderOf(e)[c], prefix))
                               /\ Get(e.values, RemovePrefix(HeaderOf(e)[c], prefix))
                                    = RowOf(e)[c]
                   /\ \A k \in DOMAIN e.values :
                        /\ \E c \in DOMAIN HeaderOf(e) : HeaderOf(e)[c] = prefix \o e.values[k].k
                        /\ \A other \in (TypeIds \cup VariableIds) \ {e.id} :
                              prefix \o e.values[k].k \notin OwnHeaders(other)

\* the concretize calls of the generator that raised, and its messages
Failed == {n \in DOMAIN log : log[n].ev = "concretize" /\ log[n].res \notin {"None", "NoReturn"}}
Yields == {n \in DOMAIN log : log[n].ev = "specialize"}

\* a failed concretization is the last thing the generator did: the
\* error reaches the caller of next(), no object is concretized and no
\* message is yielded after it
ErrorEndsSequence ==
    /\ Cardinality(Yields) = gen.yielded
    /\ \A n \in Failed :
          /\ n = Len(log)
          /\ gen.pc = "raised"
          /\ op = "next" => err = log[n].res

\* C21: when the concretization of an object fails, the error reaches
\* the consumer, no message is yielded for that row or after it and no
\* object is concretized after the failing one; and every element the
\* generator yields is a message, never None.
C21_ErrorPropagatesNoNoneMessage ==
    /\ ErrorEndsSequence
    /\ \A n \in Yields : log[n].res # "None"

\* The leaves of the field tree in the order they are met: the fields in
\* tree order, of a node its domain before its children, of a domain its
\* params in order.  A leaf is a candidate list or an object; name is
\* '<prefix>_<param>', at the prefix of the domain that reports it, node
\* the field whose domain it is in.
RECURSIVE DomainLeaves(_, _)
DomainLeaves(domain, prefix) ==
    IF domain = <<>> THEN <<>>
    ELSE LET name == Under(prefix, Head(domain).k)
             val == Head(domain).v
         IN  (IF val.t = "dict" THEN DomainLeaves(val.dict, name)
              ELSE << [name |-> name, at |-> prefix, v |-> val, node |-> <<>>] >>)
             \o DomainLeaves(Tail(domain), prefix)
RECURSIVE TreeLeaves(_, _)
TreeLeaves(fields, prefix) ==
    IF fields = <<>> THEN <<>>
    ELSE LET node == Head(fields).v
             under == Under(prefix, Head(fields).k)
             own == DomainLeaves(node.domain, under)
         IN  [n \in DOMAIN own |-> [own[n] EXCEPT !.node = under]]
             \o TreeLeaves(node.children, under) \o TreeLeaves(Tail(fields), prefix)
Leaves == TreeLeaves(symbol.ipm, symbol.name)
\* the key of the column that holds a leaf
LeafKey(l) == IF l.v.t = "list" THEN l.name ELSE l.at
\* the column names as they are discovered, each at its first discovery
RECURSIVE FirstOccurrences(_)
FirstOccurrences(s) ==
    IF s = <<>> THEN <<>>
    ELSE LET before == FirstOccurrences(SubSeq(s, 1, Len(s) - 1))
         IN  IF s[Len(s)] \in Elems(before) THEN before ELSE Append(before, s[Len(s)])
Discovery == FirstOccurrences([n \in DOMAIN Leaves |-> LeafKey(Leaves[n])])
\* s lists some of the discovered names in the order of their discovery
InDiscoveryOrder(s) == s = SelectSeq(Discovery, LAMBDA k : k \in Elems(s))
LineNames(path) == [n \in DOMAIN files[path].lines |-> LineName(files[path].lines[n])]

\* C22: the flattened model lists its columns in the order of their
\* discovery; the lines of the generator input file come in that order;
\* and the two models of the split mode, and their files, keep it.
C22_DiscoveryOrder ==
    (op = "build_ipm" /\ err = "None")
        => /\ arg.v = <<"None", "None">> => Keys(result.columns) = Discovery
           /\ arg.v = <<"None", "pict">> => InDiscoveryOrder(LineNames("ipm"))
           /\ arg.v = <<"var_ipm", "None">>
                => /\ InDiscoveryOrder(Keys(result.type_ipm))
                   /\ InDiscoveryOrder(Keys(result.var_ipm))
           /\ arg.v = <<"var_ipm", "pict">>
                => /\ InDiscoveryOrder(LineNames("ipm"))
                   /\ InDiscoveryOrder(LineNames("var_ipm"))

C22_Witness ==
    /\ op = "build_ipm" /\ err = "None" /\ arg.v = <<"var_ipm", "pict">>
    /\ symbol = Symbol_tree
    /\ Len(LineNames("ipm")) = 2 /\ Len(LineNames("var_ipm")) = 3

NodesOf(t) == {Leaves[n].node : n \in {n \in DOMAIN Leaves : Leaves[n].v.t = t}}
NodesAt(k) == {Leaves[n].node : n \in {n \in DOMAIN Leaves : LeafKey(Leaves[n]) = k}}

\* C24: the two models of the split are disjoint and together the
\* combined model; every column of type_ipm is of a field with a type
\* object, and every column of a field with a variable object, or
\* without a type object, is in var_ipm.
C24_SplitByObjectKind ==
    (op = "build_ipm" /\ err = "None" /\ arg.v = <<"var_ipm", "None">>)
        => LET types == Elems(result.type_ipm)
               variables == Elems(result.var_ipm)
           IN  /\ {c.k : c \in types} \cap {c.k : c \in variables} = {}
               /\ types \cup variables = Elems(Columns)
               /\ \A c \in types : NodesAt(c.k) \subseteq NodesOf("type")
               /\ \A c \in Elems(Columns) :
                      (NodesAt(c.k) \cap NodesOf("var") # {}
                       \/ NodesAt(c.k) \cap NodesOf("type") = {}) => c \in variables

\* C30: flattening loses no parameter: the flattened model has as many
\* columns as the tree has leaves, and every leaf, a candidate list or an
\* object, is held by a column of its own.
C30_NoLeafLost ==
    (op = "build_ipm" /\ err = "None" /\ arg.v = <<"None", "None">>)
        => /\ Len(result.columns) = Len(Leaves)
           /\ \A n \in DOMAIN Leaves :
                 /\ HasKey(result.columns, LeafKey(Leaves[n]))
                 /\ Get(result.columns, LeafKey(Leaves[n])) = Leaves[n].v

\* C25: when concretize with VALUE_RAND returns on a bit-string, hex-text
\* or byte-buffer object, the pinned value has the resolved size and is
\* none of all-zero, all-one, MSB-only, LSB-only, top-half, bottom-half
\* of that size.
C25_RandOutsideExclusions ==
    (op = "concretize" /\ obj.kind \in BitKinds /\ HasTag /\ Tag = "VALUE_RAND"
     /\ err = "None" /\ ret = Self)
        => /\ obj.value.t = "bitarray"
           /\ Len(obj.value.v) = ResolvedSize
           /\ \A tag \in DeterministicTags :
                 ~TagContent(tag, obj.value.v, ResolvedSize)

C25_Witness ==
    /\ op = "concretize" /\ obj.kind = "Raw" /\ HasTag /\ Tag = "VALUE_RAND"
    /\ err = "None" /\ ret = Self /\ ResolvedSize = 8
    /\ obj.value = Bits(<<1, 0, 1, 0, 1, 0, 1, 0>>)

\* C26: for an object with VALUE_RAND in its catalog, the loop of
\* concretize that resamples until the content is outside the exclusion
\* list is left, whatever size the row resolves.
C26_RandLoopTerminates ==
    (op = "while" /\ "VALUE_RAND" \in CatalogNames(obj)) ~> (op = "concretize")

\* the bytes pinned and the places of those outside the alphabet
PinnedBytes == BitsToBytes(obj.value.v)
Outside == {i \in DOMAIN PinnedBytes : PinnedBytes[i] \notin Elems(obj.alphabet.v)}
AlphabetTags ==
    {"VALUE_LEGAL", "VALUE_ILLEGAL_START", "VALUE_ILLEGAL_END", "VALUE_ILLEGAL_RAND"}
\* n bytes are pinned, the bytes outside the alphabet being where the
\* tag wants them (places counted from 1)
AlphabetTagRealised(n) ==
    /\ err = "None" /\ ret = Self
    /\ obj.value.t = "bitarray"
    /\ Len(obj.value.v) = 8 * n
    /\ CASE Tag = "VALUE_LEGAL" -> Outside = {}
         [] Tag = "VALUE_ILLEGAL_START" -> Outside = {1}
         [] Tag = "VALUE_ILLEGAL_END" -> Outside = {n}
         [] Tag = "VALUE_ILLEGAL_RAND" ->
              Cardinality(Outside) = 1 /\ Outside \subseteq 2..(n - 1)

QuadOf(v) == BitsToBytes(v)
DomainRule(o, v) ==
    CASE o.kind = "Raw" ->
           o.alphabet # None => Elems(BitsToBytes(v)) \subseteq Elems(o.alphabet.v)
      [] o.kind = "IPv4" ->
           /\ Len(v) = 32
           /\ ~is_netmask(QuadOf(v))
           /\ o.network # <<>> => InNetwork(QuadOf(v), o.network)
      [] OTHER -> TRUE

\* C28: without a pinned value, generate returns a value the object's
\* canParse accepts: not empty, of a bit length within the size range
\* (the cap standing for no upper bound), and within the type's domain.
C28_GenerateConforms ==
    (op = "generate" /\ obj.value = None)
        => /\ err = "None"
           /\ ret.t = "bitarray"
           /\ Len(ret.v) > 0
           /\ obj.min # NoBound => Len(ret.v) >= obj.min
           /\ Len(ret.v) <= (IF obj.max = NoBound THEN MAXIMUM_GENERATED_DATA_SIZE
                             ELSE obj.max)
           /\ DomainRule(obj, ret.v)
           /\ canParse(obj, ret) = Outcome(obj, Bool(TRUE), "None")

\* the values a tag of the catalog pins on the object
PinnedBy(o, tag) ==
    {out.obj.value : out \in concretize(o, [k \in {"BoundaryValue"} |-> tag])}
FixedBitArray == obj.kind = "BitArray" /\ obj.min = obj.max /\ obj.max >= 1
CatalogDeterministic(o) == CatalogNames(o) \cap DeterministicTags

\* C29: on a bit-string of fixed size n >= 1, every deterministic tag of
\* the catalog pins a bit value of n bits, and no other deterministic tag
\* of the catalog pins the same value.
C29_CatalogValuesDistinct ==
    (op = "concretize" /\ FixedBitArray /\ HasTag /\ Tag \in CatalogDeterministic(obj))
        => /\ err = "None"
           /\ obj.value.t = "bitarray"
           /\ Len(obj.value.v) = obj.max
           /\ \A other \in CatalogDeterministic(obj) \ {Tag} :
                 obj.value \notin PinnedBy(obj, other)

\* the bottom half pinned on three bits, next to four other tags
C29_Witness ==
    /\ op = "concretize" /\ FixedBitArray /\ obj.max = 3 /\ HasTag
    /\ Tag = "VALUE_BOTTOMHALF"
    /\ CatalogDeterministic(obj) =
          {"VALUE_NONE", "VALUE_ALL", "VALUE_MSB", "VALUE_LSB", "VALUE_BOTTOMHALF"}
    /\ obj.value = Bits(<<0, 1, 1>>)

====
